---- MODULE Spec2Model ----
(***************************************************************************)
(* CryptService (src/src/library/core/providers/crypt/crypt.service.ts):   *)
(* field-level PII encryption, keyed lookup index and the key cache.       *)
(*                                                                         *)
(* Representation.  A JavaScript string is the sequence of its UTF-16 code *)
(* units, a Buffer the sequence of its bytes (0..255).  A base64 string is *)
(* the sequence of its characters, each character given by its base64      *)
(* value: 0..63 for the alphabet, B64Pad for '=', B64Illegal for any       *)
(* character outside the alphabet.                                         *)
(*                                                                         *)
(* node:crypto is outside the repository.  hkdfSync and createHmac are     *)
(* modelled as ideal (collision-free) functions: their value is the tuple  *)
(* of the inputs that determine it.  aes-256-gcm is modelled with the      *)
(* structure of GCM: a counter-mode keystream that is XOR-ed onto the      *)
(* plaintext and a 16-byte tag that is a polynomial (GHASH-like) hash of   *)
(* the ciphertext masked by a value derived from key and nonce.            *)
(* randomBytes is modelled as ideal too: it never returns a value it has   *)
(* returned before.                                                        *)
(***************************************************************************)
EXTENDS Integers, Sequences, FiniteSets, TLC

----------------------------------------------------------------------------
(* Program constants *)

IV_LEN == 12
IV_TAG_LEN == 16
MAX_INPUT_LENGTH == 10000

(* Model bounds *)

\* longest string the generated short inputs have
MaxLen == 2
\* number of distinct 12-byte values randomBytes can return
NumNonces == 2

----------------------------------------------------------------------------
(* Generic sequence helpers *)

\* concatenation of ss[lo..hi], a sequence of sequences (balanced recursion,
\* so that sequences of MAX_INPUT_LENGTH elements need a depth of 14 only)
RECURSIVE FlatRange(_, _, _)
FlatRange(ss, lo, hi) ==
  IF lo > hi THEN <<>>
  ELSE IF lo = hi THEN ss[lo]
  ELSE LET mid == (lo + hi) \div 2
       IN  FlatRange(ss, lo, mid) \o FlatRange(ss, mid + 1, hi)

Flat(ss) == FlatRange(ss, 1, Len(ss))

\* the sequence of n copies of x
Fill(x, n) == [i \in 1..n |-> x]

\* all sequences over S of length at most n
RECURSIVE SeqsUpTo(_, _)
SeqsUpTo(S, n) ==
  IF n = 0 THEN {<<>>}
  ELSE LET shorter == SeqsUpTo(S, n - 1)
       IN  shorter \cup {Append(s, x) : s \in shorter, x \in S}

RECURSIVE Xor(_, _)
Xor(a, b) ==
  IF a = 0 THEN b
  ELSE IF b = 0 THEN a
  ELSE ((a + b) % 2) + (2 * Xor(a \div 2, b \div 2))

----------------------------------------------------------------------------
(* String.prototype.trim / toLowerCase, as used in lines 47 and 57 *)

\* WhiteSpace and LineTerminator code units of ECMAScript
IsWhiteSpace(c) ==
  \/ c \in {9, 10, 11, 12, 13, 32, 160, 5760, 8232, 8233, 8239, 8287, 12288, 65279}
  \/ (c >= 8192 /\ c <= 8202)

\* number of leading white-space code units of s[lo..hi]
RECURSIVE LeadingWs(_, _, _)
LeadingWs(s, lo, hi) ==
  IF lo > hi THEN 0
  ELSE IF lo = hi THEN (IF IsWhiteSpace(s[lo]) THEN 1 ELSE 0)
  ELSE LET mid  == (lo + hi) \div 2
           left == LeadingWs(s, lo, mid)
       IN  IF left = mid - lo + 1 THEN left + LeadingWs(s, mid + 1, hi) ELSE left

\* number of trailing white-space code units of s[lo..hi]
RECURSIVE TrailingWs(_, _, _)
TrailingWs(s, lo, hi) ==
  IF lo > hi THEN 0
  ELSE IF lo = hi THEN (IF IsWhiteSpace(s[lo]) THEN 1 ELSE 0)
  ELSE LET mid   == (lo + hi) \div 2
           right == TrailingWs(s, mid + 1, hi)
       IN  IF right = hi - mid THEN right + TrailingWs(s, lo, mid) ELSE right

Trim(s) ==
  LET n    == Len(s)
      lead == LeadingWs(s, 1, n)
  IN  IF lead = n THEN <<>>
      ELSE SubSeq(s, lead + 1, n - TrailingWs(s, 1, n))

\* toLowerCase of one code unit: the result can be longer than the input
\* (U+0130 lower-cases to U+0069 U+0307)
LowerUnit(c) ==
  IF c >= 65 /\ c <= 90 THEN <<c + 32>>
  ELSE IF (c >= 192 /\ c <= 222 /\ c # 215) THEN <<c + 32>>
  ELSE IF c = 304 THEN <<105, 775>>
  ELSE <<c>>

ToLowerCase(s) ==
  IF \A i \in 1..Len(s) : LowerUnit(s[i]) = <<s[i]>> THEN s
  ELSE Flat([i \in 1..Len(s) |-> LowerUnit(s[i])])

\* value.trim().toLowerCase()
Normalize(s) == ToLowerCase(Trim(s))

----------------------------------------------------------------------------
(* UTF-8, as Buffer and cipher.update(value, 'utf8') encode a string and   *)
(* Buffer.prototype.toString('utf8') decodes one                           *)

IsHighSurrogate(c) == c >= 55296 /\ c <= 56319
IsLowSurrogate(c) == c >= 56320 /\ c <= 57343

Utf8OfCodePoint(cp) ==
  IF cp < 128 THEN <<cp>>
  ELSE IF cp < 2048 THEN <<192 + (cp \div 64), 128 + (cp % 64)>>
  ELSE IF cp < 65536 THEN
    <<224 + (cp \div 4096), 128 + ((cp \div 64) % 64), 128 + (cp % 64)>>
  ELSE <<240 + (cp \div 262144), 128 + ((cp \div 4096) % 64),
         128 + ((cp \div 64) % 64), 128 + (cp % 64)>>

\* bytes the code unit at index i contributes: a surrogate pair is encoded at
\* its high half, an unpaired surrogate becomes U+FFFD (EF BF BD)
Utf8At(s, i) ==
  LET c == s[i]
  IN  IF IsHighSurrogate(c) THEN
        IF i < Len(s) /\ IsLowSurrogate(s[i + 1])
          THEN Utf8OfCodePoint(65536 + (c - 55296) * 1024 + (s[i + 1] - 56320))
          ELSE <<239, 191, 189>>
      ELSE IF IsLowSurrogate(c) THEN
        IF i > 1 /\ IsHighSurrogate(s[i - 1]) THEN <<>> ELSE <<239, 191, 189>>
      ELSE Utf8OfCodePoint(c)

Utf8Encode(s) ==
  IF \A i \in 1..Len(s) : s[i] < 128 THEN s
  ELSE Flat([i \in 1..Len(s) |-> Utf8At(s, i)])

IsCont(b) == b >= 128 /\ b <= 191

\* length of the well-formed UTF-8 sequence that starts at index i, 0 if none
Utf8SeqLen(b, i) ==
  LET n  == Len(b)
      b0 == b[i]
      C(k) == i + k <= n /\ IsCont(b[i + k])
  IN  IF b0 < 128 THEN 1
      ELSE IF b0 >= 194 /\ b0 <= 223 /\ C(1) THEN 2
      ELSE IF b0 >= 224 /\ b0 <= 239 /\ C(1) /\ C(2)
              /\ (b0 = 224 => b[i + 1] >= 160)
              /\ (b0 = 237 => b[i + 1] <= 159) THEN 3
      ELSE IF b0 >= 240 /\ b0 <= 244 /\ C(1) /\ C(2) /\ C(3)
              /\ (b0 = 240 => b[i + 1] >= 144)
              /\ (b0 = 244 => b[i + 1] <= 143) THEN 4
      ELSE 0

\* code units the byte at index i contributes: a well-formed sequence is
\* decoded at its first byte, its other bytes contribute nothing, any other
\* byte decodes to U+FFFD
Utf8DecodeAt(b, i) ==
  LET k == Utf8SeqLen(b, i)
      covered == \E d \in 1..3 : i - d >= 1 /\ Utf8SeqLen(b, i - d) > d
  IN  IF covered THEN <<>>
      ELSE IF k = 1 THEN <<b[i]>>
      ELSE IF k = 2 THEN <<(b[i] - 192) * 64 + (b[i + 1] - 128)>>
      ELSE IF k = 3 THEN
        <<(b[i] - 224) * 4096 + (b[i + 1] - 128) * 64 + (b[i + 2] - 128)>>
      ELSE IF k = 4 THEN
        LET cp == (b[i] - 240) * 262144 + (b[i + 1] - 128) * 4096
                  + (b[i + 2] - 128) * 64 + (b[i + 3] - 128) - 65536
        IN  <<55296 + (cp \div 1024), 56320 + (cp % 1024)>>
      ELSE <<65533>>

\* toString('latin1') in place of toString('utf8'): one code unit per byte
Utf8Decode_Latin1(b) == b

Utf8Decode(b) ==
  IF \A i \in 1..Len(b) : b[i] < 128 THEN b
  ELSE Flat([i \in 1..Len(b) |-> Utf8DecodeAt(b, i)])

----------------------------------------------------------------------------
(* base64, as Buffer.prototype.toString('base64') encodes and              *)
(* Buffer.from(string, 'base64') decodes                                   *)

B64Pad == 64
B64Illegal == 65

Base64Encode(b) ==
  LET n == Len(b)
      At(i) == IF i <= n THEN b[i] ELSE 0
  IN  [k \in 1..(4 * ((n + 2) \div 3)) |->
        LET g == (k - 1) \div 4
            j == (k - 1) % 4
            b0 == At(3 * g + 1)
            b1 == At(3 * g + 2)
            b2 == At(3 * g + 3)
        IN  IF j = 0 THEN b0 \div 4
            ELSE IF j = 1 THEN ((b0 % 4) * 16) + (b1 \div 16)
            ELSE IF j = 2 THEN (IF 3 * g + 2 > n THEN B64Pad ELSE ((b1 % 16) * 4) + (b2 \div 64))
            ELSE (IF 3 * g + 3 > n THEN B64Pad ELSE b2 % 64)]

\* The decoder never fails: it stops at the first '=', skips every character
\* outside the alphabet and drops an incomplete trailing group.
Base64Decode(str) ==
  LET pads  == {i \in 1..Len(str) : str[i] = B64Pad}
      stop  == IF pads = {} THEN Len(str)
               ELSE (CHOOSE i \in pads : \A j \in pads : i <= j) - 1
      syms  == SelectSeq(SubSeq(str, 1, stop), LAMBDA c : c < 64)
      m     == Len(syms)
      n     == (3 * (m \div 4)) + (IF m % 4 = 0 THEN 0 ELSE (m % 4) - 1)
  IN  [k \in 1..n |->
        LET g == (k - 1) \div 3
            j == (k - 1) % 3
            s0 == syms[4 * g + 1]
            s1 == syms[4 * g + 2]
            s2 == IF 4 * g + 3 <= m THEN syms[4 * g + 3] ELSE 0
            s3 == IF 4 * g + 4 <= m THEN syms[4 * g + 4] ELSE 0
        IN  IF j = 0 THEN (s0 * 4) + (s1 \div 16)
            ELSE IF j = 1 THEN ((s1 % 16) * 16) + (s2 \div 4)
            ELSE ((s2 % 4) * 64) + s3]

----------------------------------------------------------------------------
(* node:crypto *)

\* a 16-bit mixing of a sequence of numbers (the model's pseudo-random function)
RECURSIVE MixFrom(_, _, _)
MixFrom(xs, i, h) ==
  IF i > Len(xs) THEN h
  ELSE MixFrom(xs, i + 1, ((h * 17) + xs[i] + 1) % 65521)

Mix(xs) == MixFrom(xs, 1, 7)

\* hkdfSync('sha256', ikm, salt, info, 32): ideal, the key is the tuple of the
\* inputs that determine it
Hkdf(ikm, salt, info) == <<ikm, salt, info>>

KeyNum(key) == Mix(key[1] \o key[2] \o key[3])

\* counter-mode keystream byte i of (key, iv)
KeyStream(kn, ivn, i) == Mix(<<kn, ivn, i>>) % 256

\* cipher.update(...) + cipher.final(): the ciphertext has the plaintext's length
GcmCrypt(key, iv, data) ==
  LET kn  == KeyNum(key)
      ivn == Mix(iv)
  IN  [i \in 1..Len(data) |-> Xor(data[i], KeyStream(kn, ivn, i))]

\* the prime field the tag is computed in (products stay below 2^31)
TagField == 46337

\* sum over i in lo..hi of (ct[i] + 1) * h^(hi - i + 1) and h^(hi - lo + 1),
\* in the tag field
RECURSIVE PolyRange(_, _, _, _)
PolyRange(ct, h, lo, hi) ==
  IF lo > hi THEN [sum |-> 0, pow |-> 1]
  ELSE IF lo = hi THEN [sum |-> ((ct[lo] + 1) * h) % TagField, pow |-> h % TagField]
  ELSE LET mid == (lo + hi) \div 2
           l   == PolyRange(ct, h, lo, mid)
           r   == PolyRange(ct, h, mid + 1, hi)
       IN  [sum |-> ((l.sum * r.pow) + r.sum) % TagField,
            pow |-> (l.pow * r.pow) % TagField]

\* cipher.getAuthTag(): the polynomial of the ciphertext at the key's point h,
\* spread over 16-bit lanes under masks of (key, iv)
GcmTag(key, iv, ct) ==
  LET kn   == KeyNum(key)
      ivn  == Mix(iv)
      h    == 1 + (Mix(<<kn, 0>>) % (TagField - 1))
      poly == PolyRange(ct, h, 1, Len(ct)).sum
      Lane(j) == (Mix(<<kn, ivn, j>>) + (poly * j)) % TagField
  IN  [k \in 1..IV_TAG_LEN |->
        IF k % 2 = 1 THEN Lane((k + 1) \div 2) \div 256 ELSE Lane(k \div 2) % 256]

\* a decipher whose final() is never called: the tag is not verified
GcmOpen_NoFinal(key, iv, tag, ct) == [ok |-> TRUE, data |-> GcmCrypt(key, iv, ct)]

\* decipher.setAuthTag(tag); decipher.update(ct); decipher.final(): final()
\* throws unless the tag is the tag of (key, iv, ct)
GcmOpen(key, iv, tag, ct) ==
  IF GcmTag(key, iv, ct) = tag
    THEN [ok |-> TRUE, data |-> GcmCrypt(key, iv, ct)]
    ELSE [ok |-> FALSE, data |-> <<>>]

\* createHmac('sha256', key).update(value).digest('hex'): ideal, the digest is
\* an injective encoding of the key and the message that determine it;
\* update(value) takes the string's UTF-8 bytes
HmacSha256Hex(key, value) ==
  <<Len(key[1])>> \o key[1] \o <<Len(key[2])>> \o key[2]
    \o <<Len(key[3])>> \o key[3] \o Utf8Encode(value)

\* randomBytes(IV_LEN): ideal, a value it has not returned before (one of
\* NumNonces values)
Nonce(k) == [i \in 1..IV_LEN |-> ((k * 85) + (i * 7)) % 256]
Nonces == {Nonce(k) : k \in 1..NumNonces}

----------------------------------------------------------------------------
(* CryptService *)

VARIABLES
  svc,       \* the readonly fields the constructor reads from the configuration
  keyCache,  \* the Map keyCache: cache key (a string) -> derived key
  drawn,     \* the values randomBytes and the id generators have returned so far
  last,      \* the most recent call on the service and its outcome
  held,      \* the record of an earlier call whose value the caller stored
  users,     \* the rows of the users table, in the order they were inserted
  cacheManager, \* the cache-manager store: key -> value
  events,    \* the number of domain events published
  out,       \* the most recent use case or password hasher call and its outcome
  reqs,      \* the calls in flight: position and locals of each
  tally,     \* wrong passwords compared since the counter was last reset
  domain,    \* an aggregate: its _events (in insertion order) and publishStatus
  emitter    \* the events handed to emitAsync so far, in order

\* the state of the application around the service
appVars == <<users, cacheManager, events, out, reqs, tally, domain, emitter>>

vars == <<svc, keyCache, drawn, last, held, users, cacheManager, events, out, reqs,
          tally, domain, emitter>>

\* Number.prototype.toString() of a non-negative integer, as code units
RECURSIVE NumToString(_)
NumToString(n) ==
  IF n < 10 THEN <<48 + n>> ELSE Append(NumToString(n \div 10), 48 + (n % 10))

\* 'pii_' and 'hmac'
PiiPrefix == <<112, 105, 105, 95>>
HmacCacheKey == <<104, 109, 97, 99>>

ErrTooLong == "Input exceeds maximum allowed length"
ErrInvalid == "Invalid cipher data"
ErrDecrypt == "Failed to decrypt data"

\* derive32(value)
derive32(s, value) == Hkdf(s.MASTER_KEY, s.DERIVE_KEY, value)

\* getPiiKey that ignores its argument and takes the active version
getPiiKey_Active(s, cache, version) ==
  LET cacheKey == PiiPrefix \o NumToString(s.PII_ACTIVE)
  IN  IF cacheKey \notin DOMAIN cache
        THEN LET key == derive32(s, s.PII_SECRET \o Utf8Encode(NumToString(s.PII_ACTIVE)))
             IN  [key |-> key, cache |-> (cacheKey :> key) @@ cache]
        ELSE [key |-> cache[cacheKey], cache |-> cache]

\* getPiiKey over a cache that holds the last derived key only
getPiiKey_OneEntry(s, cache, version) ==
  LET cacheKey == PiiPrefix \o NumToString(version)
  IN  IF cacheKey \notin DOMAIN cache
        THEN LET key == derive32(s, s.PII_SECRET \o Utf8Encode(NumToString(version)))
             IN  [key |-> key, cache |-> (cacheKey :> key)]
        ELSE [key |-> cache[cacheKey], cache |-> cache]

\* getPiiKey(version): the key and the cache afterwards
getPiiKey(s, cache, version) ==
  LET cacheKey == PiiPrefix \o NumToString(version)
  IN  IF cacheKey \notin DOMAIN cache
        THEN LET key == derive32(s, s.PII_SECRET \o Utf8Encode(NumToString(version)))
             IN  [key |-> key, cache |-> (cacheKey :> key) @@ cache]
        ELSE [key |-> cache[cacheKey], cache |-> cache]

\* getHmacKey that derives a key per active version, as getPiiKey does
getHmacKey_Versioned(s, cache) ==
  LET cacheKey == HmacCacheKey
  IN  IF cacheKey \notin DOMAIN cache
        THEN LET key == derive32(s, s.HMAC_SECRET \o Utf8Encode(NumToString(s.PII_ACTIVE)))
             IN  [key |-> key, cache |-> (cacheKey :> key) @@ cache]
        ELSE [key |-> cache[cacheKey], cache |-> cache]

\* getHmacKey()
getHmacKey(s, cache) ==
  LET cacheKey == HmacCacheKey
  IN  IF cacheKey \notin DOMAIN cache
        THEN LET key == derive32(s, s.HMAC_SECRET)
             IN  [key |-> key, cache |-> (cacheKey :> key) @@ cache]
        ELSE [key |-> cache[cacheKey], cache |-> cache]

NoNonce == <<>>

\* the record of a call: what was called, on a service with which active
\* version, with which argument, the nonce randomBytes returned to it (NoNonce
\* if it drew none), and the outcome: the value returned (error is NoError) or
\* the message of the Error thrown
Call(op, s, arg, iv, value, error) ==
  [op |-> op, active |-> s.PII_ACTIVE, arg |-> arg, iv |-> iv,
   value |-> value, error |-> error]

NoError == ""
NoValue == <<>>
NoCall == [op |-> "none", active |-> 0, arg |-> <<>>, iv |-> NoNonce,
           value |-> NoValue, error |-> NoError]

\* the hash string of bcrypt, '$2b$<cost>$<salt><digest>', by its parts
NoHash == [cost |-> 0, salt |-> 0, digest |-> <<>>]

\* the record of a use case execution or of a password hasher call: the
\* request's email and password, the id of the user it concerned (0 if none),
\* the hash made or compared against, the password that hash was made from
\* (toHash/compareHash only), the boolean or token returned, whether the
\* token came from the cache, whether compareHash was called, and the message
\* of the exception thrown (NoError if none)
Outcome(op, email, password, id, hash, hashed, ok, token, cached, compared, error) ==
  [op |-> op, email |-> email, password |-> password, id |-> id, hash |-> hash,
   hashed |-> hashed, ok |-> ok, token |-> token, cached |-> cached,
   compared |-> compared, error |-> error]

NoToken == 0
NoOutcome == Outcome("none", <<>>, <<>>, 0, NoHash, <<>>, FALSE, NoToken, FALSE, FALSE, NoError)

\* an aggregate root: the ids of the events in _events, in the order they
\* were set, and publishStatus
Aggregate(pending, publishStatus) == [events |-> pending, publishStatus |-> publishStatus]

\* an aggregate as its field initializers leave it
NoDomain == Aggregate(<<>>, FALSE)

\* toIndexableData without toLowerCase()
toIndexableData_NoLower(s, cache, value) ==
  IF Len(value) > MAX_INPUT_LENGTH
    THEN [cache |-> cache,
          call  |-> Call("toIndexableData", s, value, NoNonce, NoValue, ErrTooLong)]
    ELSE LET v == Trim(value)
             k == getHmacKey(s, cache)
         IN  [cache |-> k.cache,
              call  |-> Call("toIndexableData", s, value, NoNonce,
                             HmacSha256Hex(k.key, v), NoError)]

\* toIndexableData(value)
toIndexableData(s, cache, value) ==
  IF Len(value) > MAX_INPUT_LENGTH
    THEN [cache |-> cache,
          call  |-> Call("toIndexableData", s, value, NoNonce, NoValue, ErrTooLong)]
    ELSE LET v == Normalize(value)
             k == getHmacKey(s, cache)
         IN  [cache |-> k.cache,
              call  |-> Call("toIndexableData", s, value, NoNonce,
                             HmacSha256Hex(k.key, v), NoError)]

\* toCipherData with the tag after the ciphertext
toCipherData_TagLast(s, cache, value, rnd) ==
  IF Len(value) > MAX_INPUT_LENGTH
    THEN [cache |-> cache,
          call  |-> Call("toCipherData", s, value, NoNonce, NoValue, ErrTooLong)]
    ELSE LET v         == Normalize(value)
             iv        == rnd
             k         == getPiiKey(s, cache, s.PII_ACTIVE)
             encrypted == GcmCrypt(k.key, iv, Utf8Encode(v))
             tag       == GcmTag(k.key, iv, encrypted)
             level     == <<s.PII_ACTIVE % 256>>
         IN  [cache |-> k.cache,
              call  |-> Call("toCipherData", s, value, iv,
                             Base64Encode(level \o iv \o encrypted \o tag), NoError)]

\* toCipherData that draws a nonce and encrypts under a zero-filled IV instead
toCipherData_ZeroIv(s, cache, value, rnd) ==
  IF Len(value) > MAX_INPUT_LENGTH
    THEN [cache |-> cache,
          call  |-> Call("toCipherData", s, value, NoNonce, NoValue, ErrTooLong)]
    ELSE LET v         == Normalize(value)
             iv        == Fill(0, IV_LEN)
             k         == getPiiKey(s, cache, s.PII_ACTIVE)
             encrypted == GcmCrypt(k.key, iv, Utf8Encode(v))
             tag       == GcmTag(k.key, iv, encrypted)
             level     == <<s.PII_ACTIVE % 256>>
         IN  [cache |-> k.cache,
              call  |-> Call("toCipherData", s, value, rnd,
                             Base64Encode(level \o iv \o tag \o encrypted), NoError)]

\* toCipherData that rejects at the limit already (>= for >)
toCipherData_AtLimit(s, cache, value, rnd) ==
  IF Len(value) >= MAX_INPUT_LENGTH
    THEN [cache |-> cache,
          call  |-> Call("toCipherData", s, value, NoNonce, NoValue, ErrTooLong)]
    ELSE LET v         == Normalize(value)
             iv        == rnd
             k         == getPiiKey(s, cache, s.PII_ACTIVE)
             encrypted == GcmCrypt(k.key, iv, Utf8Encode(v))
             tag       == GcmTag(k.key, iv, encrypted)
             level     == <<s.PII_ACTIVE % 256>>
         IN  [cache |-> k.cache,
              call  |-> Call("toCipherData", s, value, iv,
                             Base64Encode(level \o iv \o tag \o encrypted), NoError)]

\* toCipherData that draws the nonce and derives the key before it tests the
\* length
toCipherData_CheckLate(s, cache, value, rnd) ==
  LET v  == Normalize(value)
      iv == rnd
      k  == getPiiKey(s, cache, s.PII_ACTIVE)
  IN  IF Len(value) > MAX_INPUT_LENGTH
        THEN [cache |-> k.cache,
              call  |-> Call("toCipherData", s, value, iv, NoValue, ErrTooLong)]
        ELSE LET encrypted == GcmCrypt(k.key, iv, Utf8Encode(v))
                 tag       == GcmTag(k.key, iv, encrypted)
                 level     == <<s.PII_ACTIVE % 256>>
             IN  [cache |-> k.cache,
                  call  |-> Call("toCipherData", s, value, iv,
                                 Base64Encode(level \o iv \o tag \o encrypted), NoError)]

\* toCipherData(value), with rnd the value randomBytes(IV_LEN) returns if called
toCipherData(s, cache, value, rnd) ==
  IF Len(value) > MAX_INPUT_LENGTH
    THEN [cache |-> cache,
          call  |-> Call("toCipherData", s, value, NoNonce, NoValue, ErrTooLong)]
    ELSE LET v         == Normalize(value)
             iv        == rnd
             k         == getPiiKey(s, cache, s.PII_ACTIVE)
             encrypted == GcmCrypt(k.key, iv, Utf8Encode(v))
             tag       == GcmTag(k.key, iv, encrypted)
             level     == <<s.PII_ACTIVE % 256>>
         IN  [cache |-> k.cache,
              call  |-> Call("toCipherData", s, value, iv,
                             Base64Encode(level \o iv \o tag \o encrypted), NoError)]

\* fromCipherData(cipher)
fromCipherData(s, cache, cipher) ==
  LET minLength    == 1 + IV_LEN + IV_TAG_LEN
      cipherBuffer == Base64Decode(cipher)
  IN  IF Len(cipherBuffer) < minLength
        THEN [cache |-> cache,
              call  |-> Call("fromCipherData", s, cipher, NoNonce, NoValue, ErrInvalid)]
        ELSE LET level     == cipherBuffer[1]
                 iv        == SubSeq(cipherBuffer, 2, 1 + IV_LEN)
                 tag       == SubSeq(cipherBuffer, 2 + IV_LEN, 1 + IV_LEN + IV_TAG_LEN)
                 encrypted == SubSeq(cipherBuffer, 2 + IV_LEN + IV_TAG_LEN,
                                     Len(cipherBuffer))
                 k         == getPiiKey(s, cache, level)
                 opened    == GcmOpen(k.key, iv, tag, encrypted)
             IN  IF opened.ok
                   THEN [cache |-> k.cache,
                         call  |-> Call("fromCipherData", s, cipher, NoNonce,
                                        Utf8Decode(opened.data), NoError)]
                   ELSE [cache |-> k.cache,
                         call  |-> Call("fromCipherData", s, cipher, NoNonce, NoValue,
                                        ErrDecrypt)]

----------------------------------------------------------------------------
(* Construction *)

\* A number of the configuration is its floor (SALT_ROUND, PII_ACTIVE) and
\* its fractional part in tenths (SALT_ROUND_FRAC, PII_ACTIVE_FRAC).

AllZero(buffer) == \A i \in 1..Len(buffer) : buffer[i] = 0

\* validateHexBuffer with some() for every()
validateHexBufferThrows_Some(buffer) ==
  Len(buffer) = 0 \/ \E i \in 1..Len(buffer) : buffer[i] = 0

\* validateHexBuffer(buffer, name): TRUE when it throws
validateHexBufferThrows(buffer) == Len(buffer) = 0 \/ AllZero(buffer)

\* Number.isInteger(x), x < n and x > n of a configuration number
IsInteger(whole, frac) == frac = 0
Below(whole, frac, n) == whole < n
Above(whole, frac, n) == whole > n \/ (whole = n /\ frac > 0)

\* validation without the all-zero test of the secrets
validationError_NoHexTest(s) ==
  IF ~IsInteger(s.SALT_ROUND, s.SALT_ROUND_FRAC)
       \/ Below(s.SALT_ROUND, s.SALT_ROUND_FRAC, 10)
    THEN "SALT_ROUND must be an integer >= 10"
  ELSE IF ~IsInteger(s.PII_ACTIVE, s.PII_ACTIVE_FRAC)
       \/ Below(s.PII_ACTIVE, s.PII_ACTIVE_FRAC, 1)
       \/ Above(s.PII_ACTIVE, s.PII_ACTIVE_FRAC, 255)
    THEN "PII_ACTIVE must be an integer between 1 and 255"
  ELSE IF Len(s.MASTER_KEY) < 16
    THEN "MASTER_KEY must be at least 16 bytes (32 hex characters)"
  ELSE IF Len(s.DERIVE_KEY) = 0
    THEN "DERIVE_KEY is required"
  ELSE IF Len(s.PII_SECRET) < 8
    THEN "PII_SECRET must be at least 8 bytes (16 hex characters)"
  ELSE IF Len(s.HMAC_SECRET) < 8
    THEN "HMAC_SECRET must be at least 8 bytes (16 hex characters)"
  ELSE ""

\* validation(): the message of the Error it throws, "" when it returns
validationError(s) ==
  IF ~IsInteger(s.SALT_ROUND, s.SALT_ROUND_FRAC)
       \/ Below(s.SALT_ROUND, s.SALT_ROUND_FRAC, 10)
    THEN "SALT_ROUND must be an integer >= 10"
  ELSE IF ~IsInteger(s.PII_ACTIVE, s.PII_ACTIVE_FRAC)
       \/ Below(s.PII_ACTIVE, s.PII_ACTIVE_FRAC, 1)
       \/ Above(s.PII_ACTIVE, s.PII_ACTIVE_FRAC, 255)
    THEN "PII_ACTIVE must be an integer between 1 and 255"
  ELSE IF Len(s.MASTER_KEY) < 16
    THEN "MASTER_KEY must be at least 16 bytes (32 hex characters)"
  ELSE IF Len(s.DERIVE_KEY) = 0
    THEN "DERIVE_KEY is required"
  ELSE IF Len(s.PII_SECRET) < 8
    THEN "PII_SECRET must be at least 8 bytes (16 hex characters)"
  ELSE IF Len(s.HMAC_SECRET) < 8
    THEN "HMAC_SECRET must be at least 8 bytes (16 hex characters)"
  ELSE IF validateHexBufferThrows(s.MASTER_KEY) THEN "MASTER_KEY appears to be invalid hex"
  ELSE IF validateHexBufferThrows(s.DERIVE_KEY) THEN "DERIVE_KEY appears to be invalid hex"
  ELSE IF validateHexBufferThrows(s.PII_SECRET) THEN "PII_SECRET appears to be invalid hex"
  ELSE IF validateHexBufferThrows(s.HMAC_SECRET) THEN "HMAC_SECRET appears to be invalid hex"
  ELSE ""

\* validation(): TRUE when it returns, FALSE when it throws
validation(s) == validationError(s) = ""

\* the key versions the configurations of the model activate
Versions == {1, 255}

\* the fields the constructor reads from the configuration
ConfigOf(master, derive, pii, hmac, active, activeFrac, round, roundFrac) ==
  [MASTER_KEY      |-> master,
   DERIVE_KEY      |-> derive,
   SALT_ROUND      |-> round,
   SALT_ROUND_FRAC |-> roundFrac,
   PII_SECRET      |-> pii,
   PII_ACTIVE      |-> active,
   PII_ACTIVE_FRAC |-> activeFrac,
   HMAC_SECRET     |-> hmac]

\* the configurations of the model: one set of secrets, any of the versions
Config(version) ==
  ConfigOf([i \in 1..16 |-> 16 + i], <<171>>, [i \in 1..8 |-> 32 + i],
           [i \in 1..8 |-> 64 + i], version, 0, 10, 0)

Configs == {Config(v) : v \in Versions}

\* no instance: the constructor threw
NoService == ConfigOf(<<>>, <<>>, <<>>, <<>>, 0, 0, 0, 0)

\* configurations around every limit validation() tests: buffers one byte
\* short, all zero, zero but for the last byte, and good; numbers one off the
\* limits and with a fractional part
AnyMasterKeys ==
  {[i \in 1..15 |-> 16 + i], Fill(0, 16), Append(Fill(0, 15), 1), [i \in 1..16 |-> 16 + i]}
AnyDeriveKeys == {<<>>, <<0>>, <<0, 0>>, <<171>>}
AnyPiiSecrets == {[i \in 1..7 |-> 32 + i], Fill(0, 8), [i \in 1..8 |-> 32 + i]}
AnyHmacSecrets == {[i \in 1..7 |-> 64 + i], Fill(0, 8), [i \in 1..8 |-> 64 + i]}
\* <<PII_ACTIVE, its fraction, SALT_ROUND, its fraction>>
AnyNumbers ==
  {<<1, 0, 10, 0>>, <<255, 0, 10, 0>>, <<0, 0, 10, 0>>, <<256, 0, 10, 0>>,
   <<1, 5, 10, 0>>, <<255, 5, 10, 0>>, <<1, 0, 9, 0>>, <<255, 0, 10, 5>>,
   <<0, 5, 9, 5>>}

AnyConfigs ==
  {ConfigOf(master, derive, pii, hmac, n[1], n[2], n[3], n[4]) :
     master \in AnyMasterKeys, derive \in AnyDeriveKeys, pii \in AnyPiiSecrets,
     hmac \in AnyHmacSecrets, n \in AnyNumbers}

EmptyCache == <<>>

----------------------------------------------------------------------------
(* Operations *)

\* new CryptService(configService) in a new process, with an empty key
\* cache; there is no instance when validation() throws
Construct(cfg) ==
  \E error \in {validationError(cfg)} :
    /\ keyCache' = EmptyCache
    /\ IF error = NoError
         THEN svc' = cfg /\ UNCHANGED last
         ELSE /\ svc' = NoService
              /\ last' = [op |-> "constructor", active |-> 0, arg |-> <<>>,
                           iv |-> NoNonce, value |-> NoValue, error |-> error]
    /\ UNCHANGED <<drawn, held, appVars>>

ToIndexableData(value) ==
  \E r \in {toIndexableData(svc, keyCache, value)} :
      /\ svc # NoService
      /\ keyCache' = r.cache
      /\ last' = r.call
      /\ UNCHANGED <<svc, drawn, held, appVars>>

\* rnd is what randomBytes returns if the call gets to it: the call's record
\* says whether it did
ToCipherData(value, rnd) ==
  \E r \in {toCipherData(svc, keyCache, value, rnd)} :
      /\ svc # NoService
      /\ r.call.iv = NoNonce \/ rnd \notin drawn
      /\ keyCache' = r.cache
      /\ last' = r.call
      /\ drawn' = IF r.call.iv = NoNonce THEN drawn ELSE drawn \cup {rnd}
      /\ UNCHANGED <<svc, held, appVars>>

FromCipherData(cipher) ==
  \E r \in {fromCipherData(svc, keyCache, cipher)} :
      /\ svc # NoService
      /\ keyCache' = r.cache
      /\ last' = r.call
      /\ UNCHANGED <<svc, drawn, held, appVars>>

\* the caller stores the value the last call returned
Hold ==
  /\ last.op \in {"toCipherData", "toIndexableData"}
  /\ last.error = NoError
  /\ held = NoCall
  /\ held' = last
  /\ UNCHANGED <<svc, keyCache, drawn, last, appVars>>

Init ==
  /\ svc \in Configs
  /\ validation(svc)
  /\ keyCache = EmptyCache
  /\ drawn = {}
  /\ last = NoCall
  /\ held = NoCall
  /\ users = <<>>
  /\ cacheManager = <<>>
  /\ events = 0
  /\ out = NoOutcome
  /\ reqs = <<>>
  /\ tally = 0
  /\ domain = NoDomain
  /\ emitter = <<>>

IsEnvelopeOf(call) == call.op = "toCipherData" /\ call.error = NoError
IsIndexOf(call) == call.op = "toIndexableData" /\ call.error = NoError

----------------------------------------------------------------------------
(* Inputs *)

\* code units the generated inputs are made of: a white space, an upper-case
\* letter and an unpaired surrogate
Alphabet == {32, 65, 55296}

\* a letter whose lower case is longer, a surrogate pair, a two-byte letter
\* between white space, a lower-case letter
ExtraInputs == {<<304>>, <<55296, 56320>>, <<9, 201, 32>>, <<97>>}

Inputs == SeqsUpTo(Alphabet, MaxLen) \cup ExtraInputs

\* buffer with the bits of mask flipped in the byte at index pos
FlipAt(buffer, pos, mask) == [buffer EXCEPT ![pos] = Xor(buffer[pos], mask)]

FlipMasks == {1, 255}

\* strings a caller can pass to fromCipherData, given an envelope it stored:
\* the envelope, the envelope with one byte changed, with a tag byte and the
\* last byte changed, with a byte appended, with the ciphertext reversed, cut
\* short, cut inside a base64 group, with a character outside the base64
\* alphabet in front, and strings that are no base64 at all
Presentable(envelope) ==
  LET bytes == Base64Decode(envelope)
      size  == Len(bytes)
      head  == 1 + IV_LEN + IV_TAG_LEN
  IN  {envelope}
      \cup {Base64Encode(FlipAt(bytes, pos, mask)) :
              pos \in 1..Len(bytes), mask \in FlipMasks}
      \cup {Base64Encode(FlipAt(FlipAt(bytes, size, 1), pos, 1)) :
              pos \in {2 + IV_LEN, head - 1}}
      \cup {Base64Encode(Append(bytes, 0))}
      \cup {Base64Encode([i \in 1..size |-> IF i <= head THEN bytes[i]
                                             ELSE bytes[size + head + 1 - i]])}
      \cup {Base64Encode(SubSeq(bytes, 1, n)) :
              n \in {0, IV_LEN + IV_TAG_LEN, Len(bytes) - 1}}
      \cup {SubSeq(envelope, 1, Len(envelope) - 3)}
      \cup {<<B64Illegal>> \o envelope}
      \cup {<<>>, <<B64Illegal, B64Illegal, B64Illegal>>}

\* inputs of length n that are short once trimmed: white space only, a
\* letter before or after white space, a surrogate pair or an unpaired
\* surrogate after white space
Padded(n) ==
  {Fill(32, n), <<65>> \o Fill(32, n - 1), Fill(32, n - 1) \o <<65>>,
   Fill(32, n - 2) \o <<55296, 56320>>, Fill(32, n - 1) \o <<55296>>}

\* inputs of length n without white space: letters, and letters whose lower
\* case is twice as long
Solid(n) == {Fill(65, n), Fill(304, n)}

\* inputs around the length limit
BoundaryInputs ==
  UNION {Padded(n) : n \in (MAX_INPUT_LENGTH - 1)..(MAX_INPUT_LENGTH + 2)}
  \cup Solid(MAX_INPUT_LENGTH) \cup Solid(MAX_INPUT_LENGTH + 1)

\* the inputs of the specification that leaves the order of the calls free
SmallInputs == {<<32, 65>>, <<97>>, <<304>>, Fill(32, MAX_INPUT_LENGTH + 1)}

\* the inputs of toIndexableData there
IndexInputs == SmallInputs \cup {<<65, 32>>, <<55296>>}

\* the envelope an earlier process with the given active version wrote
Written(value, rnd, version) ==
  toCipherData(Config(version), EmptyCache, value, rnd).call.value

\* what the store can hand to fromCipherData when the order of the calls is
\* free: envelopes written earlier, changed in the version byte or in the tag,
\* cut short, and the empty string
StoredCiphers ==
  LET written == {Written(<<32, 65>>, Nonce(1), v) : v \in Versions}
  IN  written
      \cup {Base64Encode(FlipAt(Base64Decode(e), 1, 1)) : e \in written}
      \cup {Base64Encode(FlipAt(Base64Decode(e), 1 + IV_LEN + 1, 1)) : e \in written}
      \cup {Base64Encode(SubSeq(Base64Decode(e), 1, IV_LEN + IV_TAG_LEN)) : e \in written}
      \cup {<<>>}

----------------------------------------------------------------------------
(* Specifications *)

\* Any order of calls, on small inputs.
Next ==
  \/ \E cfg \in Configs : cfg # svc /\ Construct(cfg)
  \/ \E value \in IndexInputs : ToIndexableData(value)
  \/ \E value \in SmallInputs, rnd \in Nonces : ToCipherData(value, rnd)
  \/ \E cipher \in StoredCiphers : FromCipherData(cipher)
  \/ IsEnvelopeOf(last) /\ FromCipherData(last.value)

Spec == Init /\ [][Next]_vars

\* A caller that writes a value, stores what it got, possibly restarts the
\* service with another active version, and then reads the stored value back
\* (as stored or changed) or writes a second value and reads that one back.
Fresh == last = NoCall /\ held = NoCall
Stored == held # NoCall /\ last = held

NextCaller ==
  \/ Fresh /\ \E value \in Inputs, rnd \in Nonces : ToCipherData(value, rnd)
  \/ Fresh /\ \E value \in Inputs : ToIndexableData(value)
  \/ Hold
  \/ Stored /\ \E cfg \in Configs : cfg # svc /\ Construct(cfg)
  \/ Stored /\ IsEnvelopeOf(held)
       /\ \E cipher \in Presentable(held.value) : FromCipherData(cipher)
  \/ Stored /\ IsEnvelopeOf(held)
       /\ \E value \in Inputs, rnd \in Nonces : ToCipherData(value, rnd)
  \/ Stored /\ IsIndexOf(held) /\ \E value \in Inputs : ToIndexableData(value)
  \/ IsEnvelopeOf(held) /\ IsEnvelopeOf(last) /\ last # held
       /\ FromCipherData(last.value)

SpecCaller == Init /\ [][NextCaller]_vars

\* One call on an input around the length limit.
NextBoundary ==
  \/ Fresh /\ \E value \in BoundaryInputs, rnd \in Nonces : ToCipherData(value, rnd)
  \/ Fresh /\ \E value \in BoundaryInputs : ToIndexableData(value)

SpecBoundary == Init /\ [][NextBoundary]_vars

----------------------------------------------------------------------------
(* Properties of the envelope: round trip, errors, tampering, versions *)

\* String.prototype.toWellFormed: every unpaired surrogate replaced by U+FFFD
ToWellFormed(s) ==
  [i \in 1..Len(s) |->
    IF IsHighSurrogate(s[i]) /\ ~(i < Len(s) /\ IsLowSurrogate(s[i + 1])) THEN 65533
    ELSE IF IsLowSurrogate(s[i]) /\ ~(i > 1 /\ IsHighSurrogate(s[i - 1])) THEN 65533
    ELSE s[i]]

\* the caller has read back, unchanged, the envelope it stored
ReadBack ==
  /\ IsEnvelopeOf(held)
  /\ last.op = "fromCipherData"
  /\ last.arg = held.value

\* C1, as stated: for every string s, fromCipherData(toCipherData(s)) returns
\* exactly s.trim().toLowerCase().
C1_RoundTripExact ==
  ReadBack => last.error = NoError /\ last.value = Normalize(held.arg)

\* C1, amended: fromCipherData(toCipherData(s)) returns s.trim().toLowerCase()
\* with every unpaired surrogate replaced by U+FFFD; it is exactly
\* s.trim().toLowerCase() when s has no unpaired surrogate.
C1_RoundTrip ==
  ReadBack =>
    /\ last.error = NoError
    /\ last.value = ToWellFormed(Normalize(held.arg))
    /\ (ToWellFormed(held.arg) = held.arg => last.value = Normalize(held.arg))

\* a string with white space, an upper-case two-byte letter and no surrogate
\* came back trimmed and lower-cased
C1_Witness ==
  /\ ReadBack
  /\ held.arg = <<9, 201, 32>>
  /\ last.error = NoError
  /\ last.value = <<233>>

\* C2, as stated: every failing fromCipherData call fails with the one generic
\* decryption error, whatever the cause (no base64, a decoded buffer shorter
\* than 29 bytes, tag mismatch, an exception of the cipher).
C2_OneGenericError ==
  (last.op = "fromCipherData" /\ last.error # NoError) => last.error = ErrDecrypt

\* a byte of the envelope from the tag region on (index 14 and up) differs,
\* or the ciphertext regions differ in length
DiffersInTagOrCiphertext(bytes, other) ==
  \/ Len(bytes) # Len(other)
  \/ \E i \in (2 + IV_LEN)..Len(bytes) : bytes[i] # other[i]

SameVersionAndIv(bytes, other) ==
  /\ Len(other) >= 1 + IV_LEN
  /\ SubSeq(bytes, 1, 1 + IV_LEN) = SubSeq(other, 1, 1 + IV_LEN)

\* indexes where two buffers of the same length differ
DiffAt(bytes, other) == {i \in 1..Len(bytes) : bytes[i] # other[i]}

\* C3: for an envelope E that toCipherData returned, fromCipherData throws on
\* every E' that differs from E in at least one byte of the tag region or of
\* the ciphertext region (and is E in the version and nonce bytes).
C3_AnyChangeThrows ==
  (/\ IsEnvelopeOf(held)
   /\ last.op = "fromCipherData"
   /\ SameVersionAndIv(Base64Decode(held.value), Base64Decode(last.arg))
   /\ DiffersInTagOrCiphertext(Base64Decode(held.value), Base64Decode(last.arg)))
  => last.error # NoError

\* an envelope with its last ciphertext byte changed was refused
C3_Witness ==
  /\ IsEnvelopeOf(held)
  /\ last.op = "fromCipherData"
  /\ Len(Base64Decode(held.value)) > 1 + IV_LEN + IV_TAG_LEN
  /\ Len(Base64Decode(last.arg)) = Len(Base64Decode(held.value))
  /\ DiffAt(Base64Decode(held.value), Base64Decode(last.arg))
       = {Len(Base64Decode(held.value))}
  /\ last.error = ErrDecrypt

\* the envelope was written under one active version and read back by a
\* service with another
ReadBackAcrossVersions == ReadBack /\ last.active # held.active

\* C4: an envelope written under active version v1 is decrypted by a service
\* with the same secrets and another active version v2 to the plaintext that
\* was encrypted (the normalized string; an unpaired surrogate in it comes
\* back as U+FFFD, as from the service that wrote it): the key is picked from
\* the envelope's first byte, never from the active version.
C4_AcrossVersions ==
  ReadBackAcrossVersions =>
    /\ Base64Decode(last.arg)[1] = held.active
    /\ last.error = NoError
    /\ last.value = ToWellFormed(Normalize(held.arg))
    /\ (ToWellFormed(held.arg) = held.arg => last.value = Normalize(held.arg))

\* written under version 1, read back by a service with active version 255
C4_Witness ==
  /\ ReadBackAcrossVersions
  /\ held.active = 1
  /\ last.active = 255
  /\ held.arg = <<32, 65>>
  /\ last.value = <<97>>

\* the key of a version, as a service with an empty cache derives it
PiiKeyOf(version) == getPiiKey(Config(version), EmptyCache, version).key

\* C5: every value toCipherData returns is the base64 encoding of
\* [version:1][iv:12][authTag:16][ciphertext:N]: the first byte is
\* PII_ACTIVE & 0xff, the next 12 are the nonce drawn, the next 16 the tag of
\* the rest under the active version's key, and the length is 29 plus the
\* UTF-8 length of the normalized plaintext.
C5_Layout ==
  IsEnvelopeOf(last) =>
    LET bytes == Base64Decode(last.value)
        n     == Len(Utf8Encode(Normalize(last.arg)))
        ct    == SubSeq(bytes, 2 + IV_LEN + IV_TAG_LEN, Len(bytes))
    IN  /\ last.value = Base64Encode(bytes)
        /\ Len(bytes) = 1 + IV_LEN + IV_TAG_LEN + n
        /\ 1 + IV_LEN + IV_TAG_LEN = 29
        /\ bytes[1] = last.active % 256
        /\ SubSeq(bytes, 2, 1 + IV_LEN) = last.iv
        /\ Len(last.iv) = IV_LEN
        /\ SubSeq(bytes, 2 + IV_LEN, 1 + IV_LEN + IV_TAG_LEN)
             = GcmTag(PiiKeyOf(last.active), last.iv, ct)
        /\ ct = GcmCrypt(PiiKeyOf(last.active), last.iv, Utf8Encode(Normalize(last.arg)))

\* an envelope of a plaintext whose normalized form has three UTF-8 bytes,
\* written under version 255
C5_Witness ==
  /\ IsEnvelopeOf(last)
  /\ last.arg = <<304>>
  /\ last.active = 255
  /\ Len(Base64Decode(last.value)) = 32
  /\ Base64Decode(last.value)[1] = 255

----------------------------------------------------------------------------
(* Properties of the lookup index, the nonce and the input limit *)

\* the index a service with the given active version and an empty key cache
\* returns for x
IndexOf(x, version) == toIndexableData(Config(version), EmptyCache, x).call.value

\* C6: inputs with equal normalized forms have equal toIndexableData values,
\* on every call and after any sequence of other operations on the service:
\* whatever was called before, the value returned for a is the value a
\* service that has done nothing yet returns for any b with
\* b.trim().toLowerCase() = a.trim().toLowerCase().
C6_IndexOfNormalizedForm ==
  IsIndexOf(last) =>
    \A b \in Inputs \cup IndexInputs :
      (Len(b) <= MAX_INPUT_LENGTH /\ Normalize(b) = Normalize(last.arg))
        => last.value = IndexOf(b, last.active)

\* the index of " A", computed after encryptions and decryptions had filled
\* the key cache, is the index of "a"
C6_Witness ==
  /\ IsIndexOf(last)
  /\ last.arg = <<32, 65>>
  /\ drawn # {}
  /\ Cardinality(DOMAIN keyCache) >= 3
  /\ last.value = IndexOf(<<97>>, last.active)

\* C7: two services with the same secrets and different PII_ACTIVE return the
\* same toIndexableData(x), for every x.
C7_IndexIgnoresVersion ==
  (/\ IsIndexOf(held)
   /\ IsIndexOf(last)
   /\ last.arg = held.arg
   /\ last.active # held.active)
  => last.value = held.value

\* the same input indexed under active version 1 and under 255
C7_Witness ==
  /\ IsIndexOf(held)
  /\ IsIndexOf(last)
  /\ held.arg = <<9, 201, 32>>
  /\ last.arg = held.arg
  /\ held.active = 1
  /\ last.active = 255
  /\ last.value = held.value

\* C8: two calls of toCipherData with the same normalized input return
\* different envelopes, each call drawing a fresh nonce.
C8_EnvelopesDiffer ==
  (/\ IsEnvelopeOf(held)
   /\ IsEnvelopeOf(last)
   /\ last.iv # held.iv
   /\ Normalize(last.arg) = Normalize(held.arg))
  => last.value # held.value

\* the same service encrypted "A" twice
C8_Witness ==
  /\ IsEnvelopeOf(held)
  /\ IsEnvelopeOf(last)
  /\ held.arg = <<65>>
  /\ last.arg = <<65>>
  /\ last.active = held.active
  /\ last.iv # held.iv
  /\ last.value # held.value

\* C9: toCipherData and toIndexableData succeed on every input of length
\* exactly 10000 (and below) and fail with the input-too-large error on every
\* input of length 10001 or more; the length tested is that of the raw
\* input, before trimming.
C9_LengthLimit ==
  last.op \in {"toCipherData", "toIndexableData"} =>
    /\ Len(last.arg) <= MAX_INPUT_LENGTH => last.error = NoError
    /\ Len(last.arg) > MAX_INPUT_LENGTH => last.error = ErrTooLong
    /\ MAX_INPUT_LENGTH = 10000

\* an input of 10001 code units that is one letter once trimmed was refused
C9_Witness ==
  /\ last.op = "toCipherData"
  /\ Len(last.arg) = MAX_INPUT_LENGTH + 1
  /\ Len(Trim(last.arg)) = 1
  /\ last.error = ErrTooLong

\* C10: a call of toCipherData or toIndexableData on an input over the limit
\* throws before any cryptographic work: no key is derived, the key cache is
\* unchanged and no nonce is drawn.
C10_RejectBeforeCrypto ==
  [][\A value \in IndexInputs :
       (/\ Len(value) > MAX_INPUT_LENGTH
        /\ \/ ToIndexableData(value)
           \/ \E rnd \in Nonces : ToCipherData(value, rnd))
       => /\ last'.error = ErrTooLong
          /\ last'.iv = NoNonce
          /\ keyCache' = keyCache
          /\ drawn' = drawn]_vars

\* toCipherData refused an input over the limit on a service that had
\* derived no key yet, and still has none
C10_Witness ==
  /\ last.op = "toCipherData"
  /\ last.error = ErrTooLong
  /\ keyCache = EmptyCache
  /\ drawn = {}

(***************************************************************************)
(* Construction: every configuration around the limits is offered to the   *)
(* constructor, and the instance it leaves, if any, serves calls.          *)
(***************************************************************************)

ConstructInputs == {<<65, 32>>, Fill(32, MAX_INPUT_LENGTH + 1)}

NextConstruct ==
  \/ \E cfg \in AnyConfigs : Construct(cfg)
  \/ \E value \in ConstructInputs : ToIndexableData(value)
  \/ \E value \in ConstructInputs, rnd \in Nonces : ToCipherData(value, rnd)
  \/ IsEnvelopeOf(last) /\ FromCipherData(last.value)

SpecConstruct == Init /\ [][NextConstruct]_vars

\* a configuration number is an integer of lo..hi
IntegerIn(whole, frac, lo, hi) == frac = 0 /\ whole >= lo /\ whole <= hi

\* the defects of a configuration: master key shorter than 16 bytes or all
\* zero, derivation salt empty, a purpose secret shorter than 8 bytes or all
\* zero, active version not an integer of 1..255, work factor not an integer
\* of at least 10
Defective(cfg) ==
  \/ Len(cfg.MASTER_KEY) < 16 \/ (\A i \in DOMAIN cfg.MASTER_KEY : cfg.MASTER_KEY[i] = 0)
  \/ cfg.DERIVE_KEY = <<>>
  \/ Len(cfg.PII_SECRET) < 8 \/ (\A i \in DOMAIN cfg.PII_SECRET : cfg.PII_SECRET[i] = 0)
  \/ Len(cfg.HMAC_SECRET) < 8 \/ (\A i \in DOMAIN cfg.HMAC_SECRET : cfg.HMAC_SECRET[i] = 0)
  \/ ~IntegerIn(cfg.PII_ACTIVE, cfg.PII_ACTIVE_FRAC, 1, 255)
  \/ ~(cfg.SALT_ROUND_FRAC = 0 /\ cfg.SALT_ROUND >= 10)

\* C11: constructing CryptService with a defective configuration fails: the
\* only instances there ever are, and so the only ones a toCipherData,
\* fromCipherData or toIndexableData call is made on, have a master key of at
\* least 16 bytes that is not all zero, a non-empty salt, purpose secrets of
\* at least 8 bytes that are not all zero, an integer version of 1..255 and
\* an integer work factor of at least 10; a constructor that threw leaves no
\* instance.
C11_NoDefectiveService ==
  /\ svc # NoService => ~Defective(svc)
  /\ svc = NoService => last.op = "constructor" /\ last.error # NoError
  /\ last.op \in {"toCipherData", "fromCipherData", "toIndexableData"} => svc # NoService

\* the last test of validation() has thrown: every other one passed
C11_Witness ==
  /\ svc = NoService
  /\ last.op = "constructor"
  /\ last.error = "HMAC_SECRET appears to be invalid hex"

\* the configurations that meet the constraints of the configuration table
MeetsTable(cfg) ==
  /\ Len(cfg.MASTER_KEY) >= 16 /\ (\E i \in DOMAIN cfg.MASTER_KEY : cfg.MASTER_KEY[i] # 0)
  /\ Len(cfg.DERIVE_KEY) >= 1
  /\ Len(cfg.PII_SECRET) >= 8 /\ (\E i \in DOMAIN cfg.PII_SECRET : cfg.PII_SECRET[i] # 0)
  /\ Len(cfg.HMAC_SECRET) >= 8 /\ (\E i \in DOMAIN cfg.HMAC_SECRET : cfg.HMAC_SECRET[i] # 0)
  /\ IntegerIn(cfg.PII_ACTIVE, cfg.PII_ACTIVE_FRAC, 1, 255)
  /\ cfg.SALT_ROUND_FRAC = 0 /\ cfg.SALT_ROUND >= 10

TableConfigs == {cfg \in AnyConfigs : MeetsTable(cfg)}

SaltedConfigs == {cfg \in TableConfigs : \E i \in DOMAIN cfg.DERIVE_KEY : cfg.DERIVE_KEY[i] # 0}

\* C12 as stated: constructing with any configuration that meets the table,
\* whose only constraint on the salt is a length of at least one byte,
\* succeeds.
C12_TableSuffices ==
  [][\A cfg \in TableConfigs : Construct(cfg) => svc' = cfg]_vars

\* C12: constructing with a configuration that meets the table and whose
\* salt is not all zero succeeds: the instance holds that configuration.
C12_TableAndSaltSuffice ==
  [][\A cfg \in SaltedConfigs : Construct(cfg) => svc' = cfg]_vars

\* an instance whose master key is zero but for its last byte, serving a call
C12_Witness ==
  /\ svc \in SaltedConfigs
  /\ svc.MASTER_KEY = Append(Fill(0, 15), 1)
  /\ last.op = "toCipherData" /\ last.error = NoError

(***************************************************************************)
(* The key cache                                                           *)
(***************************************************************************)

\* what derive32 gives for a cache key on the instance s
DerivedFor(s, cacheKey) ==
  IF cacheKey = HmacCacheKey
    THEN {derive32(s, s.HMAC_SECRET)}
    ELSE {derive32(s, s.PII_SECRET \o Utf8Encode(NumToString(version))) :
            version \in {v \in 0..255 : cacheKey = PiiPrefix \o NumToString(v)}}

\* C13: on one instance the key cache is an append-only memoization: a call
\* never removes a cache key nor replaces its value, the cache changes only
\* by gaining keys it did not have, and the value under 'hmac' or
\* 'pii_<version>' is the key derived for that purpose and version, so every
\* call for the same purpose and version uses the same key.
C13_Memoization ==
  /\ [][svc' = svc =>
          /\ \A k \in DOMAIN keyCache :
                k \in DOMAIN keyCache' /\ keyCache'[k] = keyCache[k]
          /\ Cardinality(DOMAIN keyCache') <= Cardinality(DOMAIN keyCache) + 1]_vars
  /\ [](\A k \in DOMAIN keyCache : keyCache[k] \in DerivedFor(svc, k))

\* the cache holds the HMAC key and the PII keys of two versions, and the
\* last call found its key in it
C13_Witness ==
  /\ Cardinality(DOMAIN keyCache) >= 3
  /\ HmacCacheKey \in DOMAIN keyCache
  /\ last.op = "fromCipherData" /\ last.error = NoError

(***************************************************************************)
(* The password hasher                                                     *)
(***************************************************************************)

\* bcryptjs keys Blowfish with the UTF-8 bytes of the password and a zero
\* byte, read cyclically: four bytes for each of the 18 words of the P-array
BCRYPT_KEY_BYTES == 72

BcryptKey(password) ==
  LET b == Utf8Encode(password) \o <<0>>
  IN  [i \in 1..BCRYPT_KEY_BYTES |-> b[((i - 1) % Len(b)) + 1]]

\* the cost bcryptjs takes for a number of rounds of 4 or more
BcryptCost(rounds) == IF rounds > 31 THEN 31 ELSE rounds

\* bcrypt.hash(password, rounds) with the salt genSalt drew: ideal, the digest
\* is determined by, and determines, the cost, the salt and the key read
BcryptHash(password, cost, salt) ==
  [cost |-> cost, salt |-> salt, digest |-> BcryptKey(password)]

\* the salts bcrypt.genSalt may draw
BcryptSalts == {1, 2}

\* toHash(password)
toHash(s, password, salt) == BcryptHash(password, BcryptCost(s.SALT_ROUND), salt)

\* compareHash(password, salted): bcrypt.compare hashes the password with the
\* cost and the salt of the hash and compares the two strings
compareHash(password, salted) ==
  BcryptHash(password, salted.cost, salted.salt) = salted

ToHash(password, salt) ==
  /\ svc # NoService
  /\ out' = Outcome("toHash", <<>>, password, 0, toHash(svc, password, salt), password,
                     FALSE, NoToken, FALSE, FALSE, NoError)
  /\ UNCHANGED <<svc, keyCache, drawn, last, held, users, cacheManager, events, reqs, tally, domain, emitter>>

\* compareHash on the hash the last toHash returned
CompareHash(password) ==
  /\ svc # NoService
  /\ out.op \in {"toHash", "compareHash"}
  /\ out' = Outcome("compareHash", <<>>, password, 0, out.hash, out.hashed,
                     compareHash(password, out.hash), NoToken, FALSE, TRUE, NoError)
  /\ UNCHANGED <<svc, keyCache, drawn, last, held, users, cacheManager, events, reqs, tally, domain, emitter>>

\* 'Aa1!aaaa' and passwords near it: another last letter, another case, a
\* trailing space, itself twice with a zero character between; and two
\* passwords of 73 characters that differ in the last one
Secret == <<65, 97, 49, 33, 97, 97, 97, 97>>
Passwords ==
  {Secret,
   <<65, 97, 49, 33, 97, 97, 97, 98>>,
   <<97, 97, 49, 33, 97, 97, 97, 97>>,
   Secret \o <<32>>,
   Secret \o <<0>> \o Secret,
   <<65, 97, 49, 33>> \o Fill(97, 68) \o <<98>>,
   <<65, 97, 49, 33>> \o Fill(97, 68) \o <<99>>}

NextHash ==
  \/ \E password \in Passwords, salt \in BcryptSalts : ToHash(password, salt)
  \/ \E password \in Passwords : CompareHash(password)

SpecHash == Init /\ [][NextHash]_vars

\* C14: compareHash(p', toHash(p)) is true exactly when p' is p.
C14_ExactMatch ==
  out.op = "compareHash" => (out.ok <=> out.password = out.hashed)

(***************************************************************************)
(* The users module: registration, login and the password attempt limit    *)
(***************************************************************************)

\* toLookupData(value): the length precondition and the normalization of the
\* cipher, then HMAC-SHA256 under the HMAC key
toLookupData(s, cache, value) ==
  IF Len(value) > MAX_INPUT_LENGTH
    THEN [cache |-> cache,
          call  |-> Call("toLookupData", s, value, NoNonce, NoValue, ErrTooLong)]
    ELSE LET v == Normalize(value)
             k == getHmacKey(s, cache)
         IN  [cache |-> k.cache,
              call  |-> Call("toLookupData", s, value, NoNonce,
                             HmacSha256Hex(k.key, v), NoError)]

\* 'auth-login:' and 'password-attempt:'
LoginKeyPrefix == <<97, 117, 116, 104, 45, 108, 111, 103, 105, 110, 58>>
AttemptKeyPrefix == <<112, 97, 115, 115, 119, 111, 114, 100, 45, 97, 116, 116, 101, 109, 112, 116, 58>>

MAX_PASSWORD_ATTEMPTS == 5

ErrExists == "User already exists"
ErrNotFound == "User not found"
ErrPassword == "Invalid password"
ErrTooMany == "Too many password attempts. Please try again later."

\* a row of the users table: id, email_lookup, email_blob, password, and
\* whether deleted_at is set
Row(id, lookup, blob, password, deleted) ==
  [id |-> id, lookup |-> lookup, blob |-> blob, password |-> password,
   deleted |-> deleted]

NoRow == Row(0, <<>>, <<>>, NoHash, FALSE)

\* findOneByEmail that leaves out the rows with deleted_at set
findOneByEmail_ActiveOnly(rows, email) ==
  LET found == {i \in 1..Len(rows) : rows[i].lookup = email /\ ~rows[i].deleted}
  IN  IF found = {} THEN NoRow
      ELSE rows[CHOOSE i \in found : \A j \in found : i <= j]

\* findOneByEmail that matches the parameter against email_blob
findOneByEmail_ByBlob(rows, email) ==
  LET found == {i \in 1..Len(rows) : rows[i].blob = email}
  IN  IF found = {} THEN NoRow
      ELSE rows[CHOOSE i \in found : \A j \in found : i <= j]

\* findOneByEmail(email): getOne() of the rows whose email_lookup is the
\* parameter
findOneByEmail(rows, email) ==
  LET found == {i \in 1..Len(rows) : rows[i].lookup = email}
  IN  IF found = {} THEN NoRow
      ELSE rows[CHOOSE i \in found : \A j \in found : i <= j]

\* cache.get(key) || 0
Attempts(cm, key) == IF key \in DOMAIN cm THEN cm[key] ELSE 0

\* cache.del(key)
Del(cm, key) == [k \in DOMAIN cm \ {key} |-> cm[k]]

\* cache.set(key, value, ttl)
Set(cm, key, value) == [k \in DOMAIN cm \cup {key} |-> IF k = key THEN value ELSE cm[k]]

\* UserPasswordAttemptUseCase.execute that compares before it tests the limit
userPasswordAttempt_CompareFirst(s, cache, cm, user, password) ==
  LET k == toLookupData(s, cache, AttemptKeyPrefix \o NumToString(user.id))
      key == k.call.value
      isValid == compareHash(password, user.password)
  IN  IF ~isValid
        THEN IF Attempts(cm, key) >= MAX_PASSWORD_ATTEMPTS
               THEN [cache |-> k.cache, cm |-> cm, compared |-> TRUE, error |-> ErrTooMany]
               ELSE [cache |-> k.cache, cm |-> Set(cm, key, Attempts(cm, key) + 1),
                     compared |-> TRUE, error |-> ErrPassword]
        ELSE [cache |-> k.cache, cm |-> Del(cm, key), compared |-> TRUE, error |-> NoError]

\* UserPasswordAttemptUseCase.execute that returns whatever compareHash says
userPasswordAttempt_NoThrow(s, cache, cm, user, password) ==
  LET k == toLookupData(s, cache, AttemptKeyPrefix \o NumToString(user.id))
      key == k.call.value
  IN  IF Attempts(cm, key) >= MAX_PASSWORD_ATTEMPTS
        THEN [cache |-> k.cache, cm |-> cm, compared |-> FALSE, error |-> ErrTooMany]
        ELSE LET isValid == compareHash(password, user.password)
             IN  IF ~isValid
                   THEN [cache |-> k.cache, cm |-> Set(cm, key, Attempts(cm, key) + 1),
                         compared |-> TRUE, error |-> NoError]
                   ELSE [cache |-> k.cache, cm |-> Del(cm, key), compared |-> TRUE,
                         error |-> NoError]

\* UserPasswordAttemptUseCase.execute whose handleFailedAttempt does not read
\* the counter
userPasswordAttempt_SetOne(s, cache, cm, user, password) ==
  LET k == toLookupData(s, cache, AttemptKeyPrefix \o NumToString(user.id))
      key == k.call.value
  IN  IF Attempts(cm, key) >= MAX_PASSWORD_ATTEMPTS
        THEN [cache |-> k.cache, cm |-> cm, compared |-> FALSE, error |-> ErrTooMany]
        ELSE LET isValid == compareHash(password, user.password)
             IN  IF ~isValid
                   THEN [cache |-> k.cache, cm |-> Set(cm, key, 1),
                         compared |-> TRUE, error |-> ErrPassword]
                   ELSE [cache |-> k.cache, cm |-> Del(cm, key), compared |-> TRUE,
                         error |-> NoError]

\* UserPasswordAttemptUseCase.execute(query), its awaits not interleaved with
\* other requests: the key cache and the cache store afterwards, whether
\* compareHash was called, and the message of the exception (NoError: true)
userPasswordAttempt(s, cache, cm, user, password) ==
  LET k == toLookupData(s, cache, AttemptKeyPrefix \o NumToString(user.id))
      key == k.call.value
  IN  IF Attempts(cm, key) >= MAX_PASSWORD_ATTEMPTS
        THEN [cache |-> k.cache, cm |-> cm, compared |-> FALSE, error |-> ErrTooMany]
        ELSE LET isValid == compareHash(password, user.password)
             IN  IF ~isValid
                   THEN [cache |-> k.cache, cm |-> Set(cm, key, Attempts(cm, key) + 1),
                         compared |-> TRUE, error |-> ErrPassword]
                   ELSE [cache |-> k.cache, cm |-> Del(cm, key), compared |-> TRUE,
                         error |-> NoError]

\* jwtService.sign({ id }): the token of a user
Sign(id) == id

\* UserLoginUseCase.execute(query), its awaits not interleaved with other
\* requests: the key cache and the cache store afterwards, and the outcome
userLogin(s, cache, cm, rows, email, password) ==
  LET k == toLookupData(s, cache, LoginKeyPrefix \o email)
      key == k.call.value
  IN  IF key \in DOMAIN cm
        THEN [cache |-> k.cache, cm |-> cm,
              out |-> Outcome("login", email, password, 0, NoHash, <<>>, TRUE, cm[key],
                              TRUE, FALSE, NoError)]
      ELSE LET l == toLookupData(s, k.cache, email)
               row == findOneByEmail(rows, l.call.value)
           IN  IF row = NoRow \/ row.deleted
                 THEN [cache |-> l.cache, cm |-> cm,
                       out |-> Outcome("login", email, password, 0, NoHash, <<>>, FALSE,
                                       NoToken, FALSE, FALSE, ErrNotFound)]
               ELSE LET d == fromCipherData(s, l.cache, row.blob)
                    IN  IF d.call.error # NoError
                          THEN [cache |-> d.cache, cm |-> cm,
                                out |-> Outcome("login", email, password, row.id,
                                                row.password, <<>>, FALSE, NoToken, FALSE,
                                                FALSE, d.call.error)]
                        ELSE LET a == userPasswordAttempt(s, d.cache, cm, row, password)
                             IN  IF a.error # NoError
                                   THEN [cache |-> a.cache, cm |-> a.cm,
                                         out |-> Outcome("login", email, password, row.id,
                                                         row.password, <<>>, FALSE, NoToken,
                                                         FALSE, a.compared, a.error)]
                                   ELSE [cache |-> a.cache,
                                         cm |-> Set(a.cm, key, Sign(row.id)),
                                         out |-> Outcome("login", email, password, row.id,
                                                         row.password, <<>>, TRUE,
                                                         Sign(row.id), FALSE, a.compared,
                                                         NoError)]

\* UserMapper.fromDomainToRepository: the row of a new user
fromDomainToRepository(s, cache, id, email, password, rnd) ==
  LET l == toLookupData(s, cache, email)
      b == toCipherData(s, l.cache, email, rnd)
  IN  [cache |-> b.cache,
       row   |-> Row(id, l.call.value, b.call.value, password, FALSE)]

\* CreateUserUseCase.execute(command), its awaits not interleaved with other
\* requests: the key cache, the rows and the events afterwards, whether
\* randomBytes was called, and the outcome
createUser(s, cache, rows, published, email, password, salt, rnd) ==
  LET l == toLookupData(s, cache, email)
      existedUser == findOneByEmail(rows, l.call.value)
  IN  IF existedUser # NoRow
        THEN [cache |-> l.cache, rows |-> rows, events |-> published, drew |-> FALSE,
              out |-> Outcome("createUser", email, password, 0, NoHash, <<>>, FALSE,
                              NoToken, FALSE, FALSE, ErrExists)]
      ELSE LET userEmail == Normalize(email)
               hash == toHash(s, password, salt)
               id == Len(rows) + 1
               e == fromDomainToRepository(s, l.cache, id, userEmail, hash, rnd)
               d == fromCipherData(s, e.cache, e.row.blob)
           IN  [cache |-> d.cache, rows |-> Append(rows, e.row),
                events |-> published + 1, drew |-> TRUE,
                out |-> Outcome("createUser", email, password, id, hash, <<>>,
                                d.call.error = NoError, NoToken, FALSE, FALSE,
                                d.call.error)]

\* the emails of the requests: 'A@b.co', 'a@b.co', 'c@b.co'
Emails == {<<65, 64, 98, 46, 99, 111>>,
           <<97, 64, 98, 46, 99, 111>>,
           <<99, 64, 98, 46, 99, 111>>}

\* 'Bb2?bbbb'
Second == <<66, 98, 50, 63, 98, 98, 98, 98>>

\* a row of 'c@b.co' that an earlier process wrote and that was deleted since
SeedRow ==
  Row(1, toLookupData(Config(1), EmptyCache, <<99, 64, 98, 46, 99, 111>>).call.value,
      Written(<<99, 64, 98, 46, 99, 111>>, Nonce(NumNonces), 1),
      toHash(Config(1), Secret, 1), TRUE)

InitUsers ==
  /\ svc = Config(1)
  /\ keyCache = EmptyCache
  /\ last = NoCall
  /\ held = NoCall
  /\ \/ users = <<>> /\ drawn = {}
     \/ users = <<SeedRow>> /\ drawn = {Nonce(NumNonces)}
  /\ cacheManager = <<>>
  /\ events = 0
  /\ out = NoOutcome
  /\ reqs = <<>>
  /\ tally = 0
  /\ domain = NoDomain
  /\ emitter = <<>>

\* what randomBytes may return to the users module: a value it has not
\* returned before; the values are alike to this module, so the first unused
\* one stands for all of them (NoNonce: none is left)
NextNonce ==
  IF Nonces \subseteq drawn THEN NoNonce
  ELSE Nonce(CHOOSE k \in 1..NumNonces :
               Nonce(k) \notin drawn /\ \A j \in 1..(k - 1) : Nonce(j) \in drawn)

\* POST /users
CreateUser(email, password, salt, rnd) ==
  \E r \in {createUser(svc, keyCache, users, events, email, password, salt, rnd)} :
    /\ svc # NoService
    /\ r.drew => rnd # NoNonce
    /\ keyCache' = r.cache
    /\ users' = r.rows
    /\ events' = r.events
    /\ drawn' = IF r.drew THEN drawn \cup {rnd} ELSE drawn
    /\ out' = r.out
    /\ UNCHANGED <<svc, last, held, cacheManager, reqs, tally, domain, emitter>>

\* POST /auth/login
Login(email, password) ==
  \E r \in {userLogin(svc, keyCache, cacheManager, users, email, password)} :
    /\ svc # NoService
    /\ keyCache' = r.cache
    /\ cacheManager' = r.cm
    /\ out' = r.out
    /\ UNCHANGED <<svc, drawn, last, held, users, events, reqs, tally, domain, emitter>>

\* the time to live of a cache entry runs out
Expire(key) ==
  /\ key \in DOMAIN cacheManager
  /\ cacheManager' = Del(cacheManager, key)
  /\ UNCHANGED <<svc, keyCache, drawn, last, held, users, events, out, reqs, tally, domain, emitter>>

NextUsers ==
  \/ \E email \in Emails, password \in {Secret, Second} :
        CreateUser(email, password, 1, NextNonce)
  \/ \E email \in Emails, password \in {Secret, Second} : Login(email, password)
  \/ \E key \in DOMAIN cacheManager : Expire(key)

SpecUsers == InitUsers /\ [][NextUsers]_vars

\* fromRequestToLookup(email), and the key of a user's attempt counter
LookupOf(email) == toLookupData(svc, keyCache, email).call.value
AttemptKeyOf(id) == LookupOf(AttemptKeyPrefix \o NumToString(id))

\* the step removes entries of the cache store and adds none: an expiry
IsExpiry ==
  /\ DOMAIN cacheManager' \subseteq DOMAIN cacheManager
  /\ DOMAIN cacheManager' # DOMAIN cacheManager

\* C15: a password that does not match the hash makes compareHash return
\* false, it does not throw; the password attempt use case is what rejects
\* the request, with 'Invalid password', and no token is returned.
C15_MismatchIsFalse ==
  (out.op = "login" /\ out.compared /\ ~compareHash(out.password, out.hash))
    => (out.error = ErrPassword /\ ~out.ok /\ out.token = NoToken)

\* a login whose password was compared and did not match
C15_Witness ==
  /\ out.op = "login" /\ out.compared
  /\ ~compareHash(out.password, out.hash)
  /\ out.error = ErrPassword

\* C16: a login returns a token only if the password of that request
\* verifies against the stored hash of the user found for its email.
C16_TokenOnlyAfterVerify ==
  (out.op = "login" /\ out.token # NoToken)
    => \E i \in 1..Len(users) :
         /\ users[i].lookup = LookupOf(out.email)
         /\ compareHash(out.password, users[i].password)

\* C17: CreateUserUseCase.execute for an email whose lookup belongs to a
\* stored row, deleted or not, throws 'User already exists', and the rows and
\* the published events are what they were.
C17_DuplicateRejected ==
  [][(/\ out'.op = "createUser"
      /\ cacheManager' = cacheManager
      /\ \E i \in 1..Len(users) : users[i].lookup = LookupOf(out'.email))
     => (out'.error = ErrExists /\ users' = users /\ events' = events)]_vars

\* a registration refused because of a deleted row
C17_Witness ==
  /\ out.op = "createUser" /\ out.error = ErrExists
  /\ \E i \in 1..Len(users) : users[i].lookup = LookupOf(out.email) /\ users[i].deleted
  /\ Len(users) = 1 /\ events = 0

\* the email of a row, read from its blob
EmailOf(row) == fromCipherData(svc, keyCache, row.blob).call.value

\* C18: after a successful registration with email e, findOneByEmail with the
\* lookup of any email whose normalized form is that of e returns the row of
\* that user, and it keeps doing so: every row is found under the lookup of
\* every email whose normalized form is the row's email.
C18_FoundByAnyCase ==
  /\ (out.op = "createUser" /\ out.error = NoError)
       => \A e \in Emails :
            Normalize(e) = Normalize(out.email)
              => findOneByEmail(users, LookupOf(e)).id = out.id
  /\ \A i \in 1..Len(users) : \A e \in Emails :
       Normalize(e) = EmailOf(users[i])
         => findOneByEmail(users, LookupOf(e)) = users[i]

\* 'A@b.co' is registered after another user, and is found under 'a@b.co'
C18_Witness ==
  /\ out.op = "createUser" /\ out.error = NoError /\ out.id = 2
  /\ out.email # Normalize(out.email)
  /\ findOneByEmail(users, LookupOf(Normalize(out.email))).id = 2

\* C19: once the counter of a user is 5 or more, a password attempt for that
\* user is rejected with 'Too many password attempts', whatever the password,
\* without a call of compareHash and without a change to the cache store.
C19_LockedOut ==
  [][(/\ out'.op = "login" /\ ~IsExpiry
      /\ ~out'.cached /\ out'.id # 0
      /\ out'.error \notin {ErrInvalid, ErrDecrypt}
      /\ Attempts(cacheManager, AttemptKeyOf(out'.id)) >= MAX_PASSWORD_ATTEMPTS)
     => (/\ out'.error = ErrTooMany
         /\ ~out'.compared
         /\ cacheManager' = cacheManager)]_vars

\* the right password is refused while the counter is 5
C19_Witness ==
  /\ out.op = "login" /\ out.error = ErrTooMany
  /\ compareHash(out.password, out.hash)
  /\ Attempts(cacheManager, AttemptKeyOf(out.id)) = MAX_PASSWORD_ATTEMPTS

(***************************************************************************)
(* Password attempts in flight together: UserPasswordAttemptUseCase.execute *)
(* for one user, a step of a request being what runs between two awaits.   *)
(***************************************************************************)

\* the requests that may be in flight together, and the number of wrong
\* passwords, and the value of the counter, at which no new request is started
MaxRequests == 2
MaxWrong == 7

\* the user of the requests: registered by an earlier process, not deleted
AttemptUser == [SeedRow EXCEPT !.deleted = FALSE]

\* a request: where it stands, query.password, and the local attempts of
\* handleFailedAttempt
Request(pc, password, attempts) == [pc |-> pc, password |-> password, attempts |-> attempts]
Idle == Request("idle", <<>>, 0)

InitAttempts ==
  /\ svc = Config(1)
  /\ keyCache = EmptyCache
  /\ last = NoCall
  /\ held = NoCall
  /\ users = <<AttemptUser>>
  /\ drawn = {Nonce(NumNonces)}
  /\ cacheManager = <<>>
  /\ events = 0
  /\ out = NoOutcome
  /\ reqs = [i \in 1..MaxRequests |-> Idle]
  /\ tally = 0
  /\ domain = NoDomain
  /\ emitter = <<>>

\* the outcome of a password attempt
Attempted(password, compared, error) ==
  Outcome("passwordAttempt", <<>>, password, AttemptUser.id, AttemptUser.password, <<>>,
          error = NoError, NoToken, FALSE, compared, error)

\* execute(query) up to the await of cache.get in checkRateLimit
AttemptStart(i, password) ==
  \E k \in {toLookupData(svc, keyCache, AttemptKeyPrefix \o NumToString(AttemptUser.id))} :
    /\ reqs[i].pc = "idle"
    /\ tally < MaxWrong
    /\ Attempts(cacheManager, k.call.value) < MaxWrong
    /\ \A j \in 1..MaxRequests : reqs[j].attempts < MaxWrong
    /\ keyCache' = k.cache
    /\ reqs' = [reqs EXCEPT ![i] = Request("check", password, 0)]
    /\ UNCHANGED <<svc, drawn, last, held, users, cacheManager, events, out, tally, domain, emitter>>

\* cache.get resolves in checkRateLimit: throw, or go on to the await of
\* validatePassword
AttemptCheck(i) ==
  /\ reqs[i].pc = "check"
  /\ IF Attempts(cacheManager, AttemptKeyOf(AttemptUser.id)) >= MAX_PASSWORD_ATTEMPTS
       THEN /\ out' = Attempted(reqs[i].password, FALSE, ErrTooMany)
            /\ reqs' = [reqs EXCEPT ![i] = Idle]
       ELSE /\ reqs' = [reqs EXCEPT ![i].pc = "compare"]
            /\ UNCHANGED out
  /\ UNCHANGED <<svc, keyCache, drawn, last, held, users, cacheManager, events, tally, domain, emitter>>

\* compareHash resolves: on to the await of cache.get in handleFailedAttempt,
\* or to the await of cache.del
AttemptCompare(i) ==
  /\ reqs[i].pc = "compare"
  /\ IF ~compareHash(reqs[i].password, AttemptUser.password)
       THEN /\ reqs' = [reqs EXCEPT ![i].pc = "failed"]
            /\ tally' = tally + 1
       ELSE /\ reqs' = [reqs EXCEPT ![i].pc = "valid"]
            /\ UNCHANGED tally
  /\ UNCHANGED <<svc, keyCache, drawn, last, held, users, cacheManager, events, out, domain, emitter>>

\* cache.get resolves in handleFailedAttempt: on to the await of cache.set
AttemptRead(i) ==
  /\ reqs[i].pc = "failed"
  /\ reqs' = [reqs EXCEPT ![i].pc = "write",
                           ![i].attempts = Attempts(cacheManager, AttemptKeyOf(AttemptUser.id))]
  /\ UNCHANGED <<svc, keyCache, drawn, last, held, users, cacheManager, events, out, tally, domain, emitter>>

\* cache.set resolves: throw 'Invalid password'
AttemptWrite(i) ==
  /\ reqs[i].pc = "write"
  /\ cacheManager' = Set(cacheManager, AttemptKeyOf(AttemptUser.id), reqs[i].attempts + 1)
  /\ out' = Attempted(reqs[i].password, TRUE, ErrPassword)
  /\ reqs' = [reqs EXCEPT ![i] = Idle]
  /\ UNCHANGED <<svc, keyCache, drawn, last, held, users, events, tally, domain, emitter>>

\* cache.del resolves: return true; the counter is reset
AttemptDel(i) ==
  /\ reqs[i].pc = "valid"
  /\ cacheManager' = Del(cacheManager, AttemptKeyOf(AttemptUser.id))
  /\ out' = Attempted(reqs[i].password, TRUE, NoError)
  /\ reqs' = [reqs EXCEPT ![i] = Idle]
  /\ tally' = 0
  /\ UNCHANGED <<svc, keyCache, drawn, last, held, users, events, domain, emitter>>

\* the time to live of the counter runs out: the counter is reset
AttemptExpire ==
  /\ AttemptKeyOf(AttemptUser.id) \in DOMAIN cacheManager
  /\ cacheManager' = Del(cacheManager, AttemptKeyOf(AttemptUser.id))
  /\ tally' = 0
  /\ UNCHANGED <<svc, keyCache, drawn, last, held, users, events, out, reqs, domain, emitter>>

NextAttempts ==
  \/ \E i \in 1..MaxRequests, password \in {Secret, Second} : AttemptStart(i, password)
  \/ \E i \in 1..MaxRequests : AttemptCheck(i)
  \/ \E i \in 1..MaxRequests : AttemptCompare(i)
  \/ \E i \in 1..MaxRequests : AttemptRead(i)
  \/ \E i \in 1..MaxRequests : AttemptWrite(i)
  \/ \E i \in 1..MaxRequests : AttemptDel(i)
  \/ AttemptExpire

SpecAttempts == InitAttempts /\ [][NextAttempts]_vars

\* C20: between two resets of the counter at most 5 wrong passwords are
\* compared against the stored hash, however the attempts interleave.
C20_AtMostFiveCompared == tally <= MAX_PASSWORD_ATTEMPTS

(***************************************************************************)
(* Registrations in flight together: CreateUserUseCase.execute, a step of  *)
(* a request being what runs between two awaits.                           *)
(***************************************************************************)

\* what the insert of a row throws when its email_lookup is that of a stored
\* row: the unique index
ErrDuplicate == "duplicate key value violates unique constraint"

\* a registration in flight: where it stands, the dto's email and password,
\* and the row the mapper made of the user
Registration(pc, email, password, row) ==
  [pc |-> pc, email |-> email, password |-> password, row |-> row]

InitCreate ==
  /\ svc = Config(1)
  /\ keyCache = EmptyCache
  /\ last = NoCall
  /\ held = NoCall
  /\ users = <<>>
  /\ drawn = {}
  /\ cacheManager = <<>>
  /\ events = 0
  /\ out = NoOutcome
  /\ reqs = [i \in 1..MaxRequests |-> Idle]
  /\ tally = 0
  /\ domain = NoDomain
  /\ emitter = <<>>

\* execute(command) up to the await of findOneByEmail
CreateStart(i, email, password) ==
  \E l \in {toLookupData(svc, keyCache, email)} :
    /\ reqs[i].pc = "idle"
    /\ keyCache' = l.cache
    /\ reqs' = [reqs EXCEPT ![i] = Registration("find", email, password, NoRow)]
    /\ UNCHANGED <<svc, drawn, last, held, users, cacheManager, events, out, tally,
                   domain, emitter>>

\* findOneByEmail resolves: throw 'User already exists', or go on to the
\* await of toHash
CreateFind(i) ==
  /\ reqs[i].pc = "find"
  /\ IF findOneByEmail(users, LookupOf(reqs[i].email)) # NoRow
       THEN /\ out' = Outcome("createUser", reqs[i].email, reqs[i].password, 0, NoHash,
                              <<>>, FALSE, NoToken, FALSE, FALSE, ErrExists)
            /\ reqs' = [reqs EXCEPT ![i] = Idle]
       ELSE /\ reqs' = [reqs EXCEPT ![i].pc = "hash"]
            /\ UNCHANGED out
  /\ UNCHANGED <<svc, keyCache, drawn, last, held, users, cacheManager, events, tally,
                 domain, emitter>>

\* toHash resolves: User.register with an id of its own, the mapper makes the
\* row, on to the await of save
CreateHash(i, salt, rnd) ==
  /\ reqs[i].pc = "hash"
  /\ rnd # NoNonce
  /\ \E e \in {fromDomainToRepository(svc, keyCache, Cardinality(drawn) + 1,
                                      Normalize(reqs[i].email),
                                      toHash(svc, reqs[i].password, salt), rnd)} :
       /\ keyCache' = e.cache
       /\ drawn' = drawn \cup {rnd}
       /\ reqs' = [reqs EXCEPT ![i].pc = "save", ![i].row = e.row]
  /\ UNCHANGED <<svc, last, held, users, cacheManager, events, out, tally, domain,
                 emitter>>

\* save resolves: the insert is refused by the unique index on email_lookup,
\* or the row is stored, the events of the user are published and the
\* response is made of the row
CreateSave(i) ==
  /\ reqs[i].pc = "save"
  /\ IF \E k \in 1..Len(users) : users[k].lookup = reqs[i].row.lookup
       THEN /\ out' = Outcome("createUser", reqs[i].email, reqs[i].password,
                              reqs[i].row.id, reqs[i].row.password, <<>>, FALSE, NoToken,
                              FALSE, FALSE, ErrDuplicate)
            /\ UNCHANGED <<keyCache, users, events>>
       ELSE \E d \in {fromCipherData(svc, keyCache, reqs[i].row.blob)} :
              /\ users' = Append(users, reqs[i].row)
              /\ events' = events + 1
              /\ keyCache' = d.cache
              /\ out' = Outcome("createUser", reqs[i].email, reqs[i].password,
                                reqs[i].row.id, reqs[i].row.password, <<>>,
                                d.call.error = NoError, NoToken, FALSE, FALSE,
                                d.call.error)
  /\ reqs' = [reqs EXCEPT ![i] = Idle]
  /\ UNCHANGED <<svc, drawn, last, held, cacheManager, tally, domain, emitter>>

NextCreate ==
  \/ \E i \in 1..MaxRequests, email \in Emails : CreateStart(i, email, Secret)
  \/ \E i \in 1..MaxRequests : CreateFind(i)
  \/ \E i \in 1..MaxRequests : CreateHash(i, 1, NextNonce)
  \/ \E i \in 1..MaxRequests : CreateSave(i)

SpecCreate == InitCreate /\ [][NextCreate]_vars

\* no two stored rows have the same email_lookup
OneRowPerLookup ==
  \A i, j \in 1..Len(users) : users[i].lookup = users[j].lookup => i = j

\* C21: however two registrations whose emails normalize to the same value
\* interleave, no two stored rows have the same email_lookup, and a
\* registration that stores no row fails with 'User already exists'.
C21_LoserToldExists ==
  /\ OneRowPerLookup
  /\ (out.op = "createUser" /\ out.error # NoError) => out.error = ErrExists

(***************************************************************************)
(* The events of an aggregate: writeDomainToRepository on one user, and    *)
(* the publishEvents calls it starts, a step of a call being what runs     *)
(* between two awaits.                                                     *)
(***************************************************************************)

\* the events that may be added, and the rejections of emitAsync, after
\* which no further one is taken
MaxEvents == 2
MaxFailures == 2

\* what save and emitAsync reject with
ErrSave == "save failed"
ErrEmit == "emit failed"

\* addEvent(event): set under event.id unless _events has that id
addEvent(d, event) ==
  IF \E k \in 1..Len(d.events) : d.events[k] = event THEN d
  ELSE Aggregate(Append(d.events, event), d.publishStatus)

\* executor(event, emitter) up to the await of emitAsync: the event is handed
\* to the emitter, the status of its log is 'pending'
Handed(log, event) == Append(log, [eventId |-> event, status |-> "pending"])

\* publishEvents(eventEmitter) up to its first await, or to its return when
\* it does not await: the aggregate and the emitter's log afterwards, and the
\* call (its array events, the index of the event it awaits, and the log
\* entry of that event)
publishEvents(d, log) ==
  IF d.publishStatus
    THEN [domain |-> d, emitter |-> log, call |-> Idle]
  ELSE IF d.events = <<>>
    THEN [domain |-> Aggregate(<<>>, FALSE), emitter |-> log, call |-> Idle]
  ELSE [domain |-> Aggregate(d.events, TRUE), emitter |-> Handed(log, d.events[1]),
        call |-> [pc |-> "emit", events |-> d.events, at |-> 1, log |-> Len(log) + 1]]

\* the rest of publishEvents without the finally block
publishEventsResumed_NoFinally(d, log, call, resolved) ==
  LET logged == [log EXCEPT ![call.log].status =
                   IF resolved THEN "published" ELSE "failed"]
  IN  IF ~resolved
        THEN [domain |-> d, emitter |-> logged, call |-> Idle, error |-> ErrEmit]
      ELSE IF call.at < Len(call.events)
        THEN [domain |-> d, emitter |-> Handed(logged, call.events[call.at + 1]),
              call |-> [call EXCEPT !.at = call.at + 1, !.log = Len(logged) + 1],
              error |-> NoError]
      ELSE [domain |-> Aggregate(<<>>, FALSE), emitter |-> logged, call |-> Idle,
            error |-> NoError]

\* publishEvents from the point where emitAsync settles to the next await or
\* to the end of the call: the executor's log gets its status; a rejection
\* is rethrown and finally resets publishStatus; otherwise the next event of
\* the array is handed over or, after the last, clearEvents() and finally
publishEventsResumed(d, log, call, resolved) ==
  LET logged == [log EXCEPT ![call.log].status =
                   IF resolved THEN "published" ELSE "failed"]
  IN  IF ~resolved
        THEN [domain |-> Aggregate(d.events, FALSE), emitter |-> logged,
              call |-> Idle, error |-> ErrEmit]
      ELSE IF call.at < Len(call.events)
        THEN [domain |-> d, emitter |-> Handed(logged, call.events[call.at + 1]),
              call |-> [call EXCEPT !.at = call.at + 1, !.log = Len(logged) + 1],
              error |-> NoError]
      ELSE [domain |-> Aggregate(<<>>, FALSE), emitter |-> logged, call |-> Idle,
            error |-> NoError]

\* writeDomainToRepository that publishes whether or not the save succeeded
writeDomainToRepository_PublishAnyway(d, log, saved) == publishEvents(d, log)

\* writeDomainToRepository(domain) from the point where save settles: a
\* rejection is thrown on, otherwise void domain.publishEvents(eventEmitter)
writeDomainToRepository(d, log, saved) ==
  IF saved THEN publishEvents(d, log)
  ELSE [domain |-> d, emitter |-> log, call |-> Idle]

InitEvents ==
  /\ svc = Config(1)
  /\ keyCache = EmptyCache
  /\ last = NoCall
  /\ held = NoCall
  /\ users = <<>>
  /\ drawn = {}
  /\ cacheManager = <<>>
  /\ events = 0
  /\ out = NoOutcome
  /\ reqs = [i \in 1..MaxRequests |-> Idle]
  /\ tally = 0
  /\ domain = NoDomain
  /\ emitter = <<>>

\* the outcome of a call on the aggregate or on the repository
Settled(op, error) ==
  Outcome(op, <<>>, <<>>, AttemptUser.id, NoHash, <<>>, error = NoError, NoToken, FALSE,
          FALSE, error)

\* the rejections of emitAsync so far
Failures == Cardinality({k \in 1..Len(emitter) : emitter[k].status = "failed"})

\* a method of the aggregate adds an event: a new one, with an id of its
\* own, or one that is pending
AddEvent(event) ==
  /\ \/ event = Cardinality(drawn) + 1
     \/ \E k \in 1..Len(domain.events) : domain.events[k] = event
  /\ domain' = addEvent(domain, event)
  /\ drawn' = drawn \cup {event}
  /\ UNCHANGED <<svc, keyCache, last, held, users, cacheManager, events, out, reqs,
                 tally, emitter>>

\* writeDomainToRepository(domain) up to the await of save
WriteDomainToRepository(i) ==
  /\ reqs[i].pc = "idle"
  /\ reqs' = [reqs EXCEPT ![i].pc = "save"]
  /\ UNCHANGED <<svc, keyCache, drawn, last, held, users, cacheManager, events, out,
                 tally, domain, emitter>>

\* save settles: the row of the user is stored and publishEvents is started,
\* or the rejection is thrown on
SaveSettles(i, saved) ==
  /\ reqs[i].pc = "save"
  /\ \E r \in {writeDomainToRepository(domain, emitter, saved)} :
       /\ domain' = r.domain
       /\ emitter' = r.emitter
       /\ reqs' = [reqs EXCEPT ![i] = r.call]
  /\ users' = IF saved THEN <<AttemptUser>> ELSE users
  /\ out' = Settled("writeDomainToRepository", IF saved THEN NoError ELSE ErrSave)
  /\ UNCHANGED <<svc, keyCache, drawn, last, held, cacheManager, events, tally>>

\* emitAsync settles
EmitSettles(i, resolved) ==
  /\ reqs[i].pc = "emit"
  /\ resolved \/ Failures < MaxFailures
  /\ \E r \in {publishEventsResumed(domain, emitter, reqs[i], resolved)} :
       /\ domain' = r.domain
       /\ emitter' = r.emitter
       /\ reqs' = [reqs EXCEPT ![i] = r.call]
       /\ out' = IF r.call = Idle THEN Settled("publishEvents", r.error) ELSE out
  /\ UNCHANGED <<svc, keyCache, drawn, last, held, users, cacheManager, events, tally>>

NextEvents ==
  \/ \E event \in 1..MaxEvents : AddEvent(event)
  \/ \E i \in 1..MaxRequests : WriteDomainToRepository(i)
  \/ \E i \in 1..MaxRequests, saved \in BOOLEAN : SaveSettles(i, saved)
  \/ \E i \in 1..MaxRequests, resolved \in BOOLEAN : EmitSettles(i, resolved)

SpecEvents == InitEvents /\ [][NextEvents]_vars

\* the step in which the save of a call settles, with or without an error
SaveSettled(error) ==
  /\ \E i \in 1..MaxRequests : reqs[i].pc = "save" /\ reqs'[i] # reqs[i]
  /\ out'.error = error

\* the step in which a publishEvents call ends with the rejection of emitAsync
EmitFailed ==
  /\ \E i \in 1..MaxRequests : reqs[i].pc = "emit" /\ reqs'[i] = Idle
  /\ out'.error = ErrEmit

\* C22: no event is handed to the emitter before the row of the user has
\* been saved; and when a save fails, that call hands no event to the emitter
\* and the events of the aggregate stay pending.
C22_EmitAfterSave ==
  /\ [](emitter # <<>> => users # <<>>)
  /\ [][SaveSettled(ErrSave) => (emitter' = emitter /\ domain' = domain)]_vars

\* the save failed, the event of the user is pending and was not emitted
C22_Witness ==
  /\ out.op = "writeDomainToRepository" /\ out.error = ErrSave
  /\ domain.events # <<>>
  /\ emitter = <<>> /\ users = <<>>

\* C23: over any interleaving of publishEvents calls on one aggregate, every
\* event is handed to the emitter at most once, and a call that starts while
\* another is in progress hands nothing to the emitter.
C23_AtMostOnce ==
  /\ [](\A j, k \in 1..Len(emitter) :
          emitter[j].eventId = emitter[k].eventId => j = k)
  /\ [][(domain.publishStatus /\ SaveSettled(NoError)) => emitter' = emitter]_vars

\* C24: every event that was added is pending or has been handed to the
\* emitter.
C24_NoEventLost ==
  \A event \in drawn :
    \/ \E k \in 1..Len(domain.events) : domain.events[k] = event
    \/ \E k \in 1..Len(emitter) : emitter[k].eventId = event

\* C27: when emitAsync rejects, publishEvents ends with that error, every
\* event of the aggregate is still pending and publishStatus is false;
\* publishStatus is true only while a call awaits emitAsync, so the next
\* publishEvents call on pending events hands the first of them to the
\* emitter.
C27_FailureLeavesPending ==
  /\ [][EmitFailed => (/\ out'.op = "publishEvents"
                       /\ domain'.events = domain.events
                       /\ ~domain'.publishStatus)]_vars
  /\ []((\A i \in 1..MaxRequests : reqs[i].pc # "emit") => ~domain.publishStatus)
  /\ [][(/\ SaveSettled(NoError)
         /\ \A i \in 1..MaxRequests : reqs[i].pc # "emit"
         /\ domain.events # <<>>)
        => emitter' = Handed(emitter, domain.events[1])]_vars

\* an event whose emission failed was published by a later call, and nothing
\* is pending any more
C27_Witness ==
  /\ \E j, k \in 1..Len(emitter) :
       /\ j < k
       /\ emitter[j].eventId = emitter[k].eventId
       /\ emitter[j].status = "failed"
       /\ emitter[k].status = "published"
  /\ domain = NoDomain

(***************************************************************************)
(* The key cache and the keys in it                                        *)
(***************************************************************************)

\* the cache keys of the key versions 1..255
ValidPiiCacheKeys == {PiiPrefix \o NumToString(v) : v \in 1..255}

\* C26: the key cache holds only the key 'hmac' and keys 'pii_<v>' for
\* versions v in 1..255, and a fromCipherData call that throws leaves the key
\* cache as it was before the call.
C26_OnlyValidVersionsCached ==
  /\ [](\A k \in DOMAIN keyCache : k = HmacCacheKey \/ k \in ValidPiiCacheKeys)
  /\ [][(svc' = svc /\ last'.op = "fromCipherData" /\ last'.error # NoError)
        => keyCache' = keyCache]_vars

\* configurations validation() accepts: the secrets of Config, and with them
\* an HMAC secret that is the PII secret followed by the characters '1', and
\* one that is the PII secret followed by '255'
KeyConfigs ==
  {[cfg EXCEPT !.HMAC_SECRET = cfg.PII_SECRET \o digits] :
     cfg \in Configs, digits \in {<<49>>, <<50, 53, 53>>}}
  \cup Configs

InitKeys ==
  /\ svc \in KeyConfigs
  /\ validation(svc)
  /\ keyCache = EmptyCache
  /\ drawn = {}
  /\ last = NoCall
  /\ held = NoCall
  /\ users = <<>>
  /\ cacheManager = <<>>
  /\ events = 0
  /\ out = NoOutcome
  /\ reqs = <<>>
  /\ tally = 0
  /\ domain = NoDomain
  /\ emitter = <<>>

\* any order of calls on one instance
NextKeys ==
  \/ \E value \in IndexInputs : ToIndexableData(value)
  \/ \E value \in SmallInputs, rnd \in Nonces : ToCipherData(value, rnd)
  \/ \E cipher \in StoredCiphers : FromCipherData(cipher)
  \/ IsEnvelopeOf(last) /\ FromCipherData(last.value)

SpecKeys == InitKeys /\ [][NextKeys]_vars

\* C25: on an instance of any valid configuration, no key derived for PII
\* encryption, whatever the version, is the key derived for the lookup HMAC.
C25_KeysSeparate ==
  HmacCacheKey \in DOMAIN keyCache
    => \A k \in DOMAIN keyCache \ {HmacCacheKey} : keyCache[k] # keyCache[HmacCacheKey]

(***************************************************************************)
(* The counter of failed password attempts, one request after the other   *)
(***************************************************************************)

\* the counter stored for the user with the given id, now and after the step
Counter(id) == Attempts(cacheManager, AttemptKeyOf(id))
CounterAfter(id) == Attempts(cacheManager', AttemptKeyOf(id))

\* the step is a login in which the password of the user with the given id
\* was compared
Tried(id) == out'.op = "login" /\ ~IsExpiry /\ out'.id = id /\ out'.compared

====
